---- MODULE Spec2Model ----
(***************************************************************************)
(* LoRaWAN 1.0.x end-device MAC of serper/LoRaWANCH341 (class LoRaWAN in   *)
(* src/src/LoRaWAN.cpp), as a state machine.                               *)
(*                                                                         *)
(* Time is kept in milliseconds.  Every steady_clock timestamp of the      *)
(* program (txEndTime, rxWindowStart, lastConfirmAttempt, lastChannelUse)  *)
(* is held as the time elapsed since it was taken, which is the only way   *)
(* the code ever reads it (now - timestamp); each elapsed time saturates   *)
(* at the largest threshold the code compares it with.                     *)
(* Frequencies are in kHz, air time in microseconds.                       *)
(* Keys and addresses are abstracted to small integers, 0 being the        *)
(* all-zero value.                                                         *)
(***************************************************************************)
EXTENDS Integers, Sequences, FiniteSets, TLC

\* ---------------------------------------------------------------- constants
RECEIVE_DELAY1 == 1000
RECEIVE_DELAY2 == 2000
WINDOW_DURATION == 500
ADR_ACK_LIMIT == 64
ADR_ACK_DELAY == 32
MAX_RETRIES == 8
\* generateDevNonce: entries the DevNonce history keeps
MAX_NONCES == 100
\* generateDevNonce: (rand() % 0xFFFF) + 1
MAX_NONCE == 65535
MAX_CHANNELS == 16
\* handleConfirmation: a retry is due after 5 whole seconds
RETRY_SECONDS == 5
\* getDutyCycleUsage: usage is forgotten after one hour without use (ms)
HOUR_MS == 3600000
\* getDutyCycleUsage: the air time that counts as 100 % usage (us)
HOUR_BUDGET == 36000000
\* BASE_FREQ[EU868], CHANNEL_STEP[EU868], RX2_FREQ[EU868] in kHz; RX2_SF[EU868]
BASE_FREQ == 868100
CHANNEL_STEP == 200
RX2_FREQ == 869525
RX2_SF == 9
\* RX2_BW[EU868] (kHz) and MAX_POWER[EU868] (dBm)
RX2_BW == 125
MAX_POWER == 14
\* the frequency literal send() hands to checkDutyCycle (kHz)
DUTY_FREQ == 868100
\* init(): SF9, 125 kHz, CR 4/5, preamble 8, 14 dBm
INIT_SF == 9
INIT_BW == 125
INIT_CR == 5
INIT_PREAMBLE == 8
INIT_POWER == 14
\* join(): RX2 of the join procedure listens at SF12
JOIN_RX2_SF == 12
\* update(): shortest frame that is looked at
MIN_FRAME == 13
\* main loop period of the example application (ms)
LOOP_PERIOD == 100

\* ------------------------------------------------------------------- bounds
\* uplinks per session that a run of the main specification observes
MaxFCnt == 2
\* uplinks that a run of the duty-cycle specification observes
MaxDutyFCnt == 20
DutyStep == 900000
\* Join-Requests whose nonces the history holds before OTAA joins stop
MaxJoinReqs == 1
MaxMacFCnt == 2
\* uplinks that a run of the ADR specification observes
MaxAdrFCnt == 98
MaxRxFCnt == 2
RxStep == 25

AgeCap == HOUR_MS + 1

DeviceClasses == {"CLASS_A", "CLASS_C"}
JoinModes == {"OTAA", "ABP"}
Channels == 0 .. (MAX_CHANNELS - 1)
NoFile == [exists |-> FALSE, complete |-> FALSE, devAddr |-> 0, nwkSKey |-> 0,
           appSKey |-> 0, uplinkCounter |-> 0, downlinkCounter |-> 0,
           joined |-> FALSE]

\* --------------------------------------------------------------- variables
VARIABLES
    \* LoRaWAN / LoRaWAN::Impl fields
    joined, currentClass, devAddr, nwkSKey, appSKey,
    uplinkCounter, downlinkCounter,
    adrEnabled, adrAckCounter, current_sf, current_power,
    confirmState, confirmRetries, elapsedSinceConfirm, pendingAck, ackPort,
    rxState, elapsedSinceTx, elapsedSinceWindow,
    channelFrequencies, elapsedSinceUse, channelAirTime, current_channel,
    one_channel_gateway, one_channel_freq, one_channel_sf,
    current_bw, current_nbRep, txPower, rx1DrOffset, rx2DataRate,
    pendingMACResponses, usedNonces, lastDevNonce,
    \* generateDevNonce's locals: isUnique, and the value rand() gave last
    isUnique, candidate,
    \* the session file on disk
    sessionFile,
    \* the RFM95 as the MAC has programmed it
    rfmMode, rfmFreq, rfmSF, rfmBW, rfmPower,
    \* observation of the last API call and of the air interface
    lastCall, rx1Accepted, rx1OpenedAt, rx2OpenedAt, sinceCall,
    sinceTxEnd, lastTxFreq, lastTxAir, sameChGap, sameChAir, upTime, hourAir

progVars == <<joined, currentClass, devAddr, nwkSKey, appSKey,
              uplinkCounter, downlinkCounter,
              adrEnabled, adrAckCounter, current_sf, current_power,
              confirmState, confirmRetries, elapsedSinceConfirm, pendingAck,
              ackPort, rxState, elapsedSinceTx, elapsedSinceWindow,
              channelFrequencies, elapsedSinceUse, channelAirTime,
              current_channel, one_channel_gateway, one_channel_freq,
              one_channel_sf, current_bw, current_nbRep, txPower,
              rx1DrOffset, rx2DataRate, pendingMACResponses,
              usedNonces, lastDevNonce, isUnique, candidate,
              sessionFile, rfmMode, rfmFreq, rfmSF, rfmBW, rfmPower>>

obsVars == <<lastCall, rx1Accepted, rx1OpenedAt, rx2OpenedAt,
             sinceCall, sinceTxEnd, lastTxFreq, lastTxAir, sameChGap,
             sameChAir, upTime, hourAir>>

vars == <<progVars, obsVars>>

\* ----------------------------------------------------------------- helpers
Max(a, b) == IF a > b THEN a ELSE b
Min(a, b) == IF a < b THEN a ELSE b
Abs(a) == IF a < 0 THEN -a ELSE a
Saturate(t) == Min(t, AgeCap)

\* F(v), the value v being computed once: a local variable of the code
Bind(v, F(_)) == CHOOSE r \in {F(x) : x \in {v}} : TRUE
\* the thresholds of txEndTime, rxWindowStart and lastConfirmAttempt
TxCap == RECEIVE_DELAY2
WindowCap == WINDOW_DURATION
ConfirmCap == RETRY_SECONDS * 1000

\* channelFrequencies[idx]; an index outside the array reads whatever memory
\* holds there (junk)
ChanFreq(s, idx, junk) ==
    IF idx \in Channels THEN s.channelFrequencies[idx] ELSE junk

\* the first channel whose frequency is within 0.01 MHz of f, or none
MatchingChannels(cf, f) == {i \in Channels : Abs(cf[i] - f) < 10}
FirstOf(S) == CHOOSE i \in S : \A j \in S : i <= j

getChannelFromFrequency(cf, f) ==
    IF MatchingChannels(cf, f) = {} THEN -1 ELSE FirstOf(MatchingChannels(cf, f))

\* every elapsed time grows by d
Advance(s, d) ==
    [s EXCEPT !.elapsedSinceTx = Min(@ + d, TxCap),
              !.elapsedSinceWindow = Min(@ + d, WindowCap),
              !.elapsedSinceConfirm = Min(@ + d, ConfirmCap),
              !.elapsedSinceUse = [i \in Channels |-> Saturate(@[i] + d)],
              !.sinceTxEnd = Saturate(@ + d),
              !.sinceCall = Saturate(@ + d),
              !.upTime = Saturate(@ + d)]

\* ------------------------------------------------------------- duty cycle
\* calculateTimeOnAir, in microseconds, for the radio's programmed SF and
\* bandwidth, CR 5, preamble 8 (the integer arithmetic of the C++ expression)
calculateTimeOnAir(payload_size, sf, bw) ==
    LET preambleSymbols == INIT_PREAMBLE + 4
        packet_size == payload_size + 13
        payloadSymbols ==
            8 + Max(((8 * packet_size - 4 * sf + 28 + 16) \div (4 * sf))
                    * (INIT_CR + 4), 0)
    IN ((preambleSymbols + payloadSymbols) * (2 ^ sf) * 1000) \div bw

\* minWaitTime = airTime / 0.01 - airTime (us)
minWaitTime(airTime) == (airTime * 100) - airTime

\* elapsed (whole ms) < minWaitTime (us)
TooEarly(elapsed, airTime) == elapsed < ((minWaitTime(airTime) + 999) \div 1000)

\* checkDutyCycle: the channel of the frequency, channel 0 if there is none
DutyChannel(cf, f) ==
    IF MatchingChannels(cf, f) = {} THEN 0 ELSE FirstOf(MatchingChannels(cf, f))

\* checkDutyCycle(frequency, payload_size): refuses while the channel was used
\* less than minWaitTime ago, else books the air time
checkDutyCycle(s, frequency, payload_size) ==
    LET channel == DutyChannel(s.channelFrequencies, frequency)
        airTime == calculateTimeOnAir(payload_size, s.rfmSF, s.rfmBW)
    IN IF TooEarly(s.elapsedSinceUse[channel], airTime)
       THEN [s EXCEPT !.ret = FALSE]
       ELSE [s EXCEPT !.elapsedSinceUse[channel] = 0,
                      !.channelAirTime[channel] = @ + airTime,
                      !.ret = TRUE]

\* getDutyCycleUsage(channel), as booked air time (us) instead of percent
getDutyCycleUsage(s, channel) ==
    IF channel < 0 \/ channel >= MAX_CHANNELS THEN 0
    ELSE IF s.elapsedSinceUse[channel] > HOUR_MS THEN 0
    ELSE s.channelAirTime[channel]

\* send(): the loop over the first 8 channels that picks the least used one
RECURSIVE BestChannelLoop(_, _, _, _)
BestChannelLoop(s, i, lowestUsage, bestChannel) ==
    IF i >= 8 THEN bestChannel
    ELSE IF getDutyCycleUsage(s, i) < lowestUsage /\ s.channelFrequencies[i] > 0
         THEN BestChannelLoop(s, i + 1, getDutyCycleUsage(s, i), i)
         ELSE BestChannelLoop(s, i + 1, lowestUsage, bestChannel)

BestChannel(s) == BestChannelLoop(s, 0, HOUR_BUDGET, 0)

\* send(): the wait taken when checkDutyCycle refused
DutyCycleWait(s, packetSize) ==
    LET elapsed == s.elapsedSinceUse[0]
        airTime == calculateTimeOnAir(packetSize, s.rfmSF, s.rfmBW)
    IN IF TooEarly(elapsed, airTime)
       THEN Advance(s, (minWaitTime(airTime) \div 1000) - elapsed)
       ELSE s

\* ------------------------------------------------------------------ radio
\* standbyMode()
Standby(s) == [s EXCEPT !.rfmMode = "STDBY"]

\* setFrequency, setSpreadingFactor, setBandwidth, setContinuousReceive
Listen(s, freq, sf, bw) ==
    [s EXCEPT !.rfmMode = "RX_CONTINUOUS", !.rfmFreq = freq, !.rfmSF = sf,
              !.rfmBW = bw]

\* the Class C listening configuration: RX2_FREQ, RX2_SF, RX2_BW,
\* continuous receive
ListenRX2(s) == Listen(s, RX2_FREQ, RX2_SF, RX2_BW)

\* ---------------------------------------------------------------- session
\* the four bytes of a DevAddr in reverse order, as the file has them
ReverseBytes(v) ==
    (v % 256) * 16777216 + ((v \div 256) % 256) * 65536
      + ((v \div 65536) % 256) * 256 + ((v \div 16777216) % 256)

\* Impl::saveSessionData with SessionManager::saveSession: the JSON text
\* with devAddr, nwkSKey, appSKey, the two counters and joined
saveSessionData(s) ==
    [s EXCEPT !.sessionFile = [exists |-> TRUE, complete |-> TRUE,
                               devAddr |-> ReverseBytes(s.devAddr),
                               nwkSKey |-> s.nwkSKey,
                               appSKey |-> s.appSKey,
                               uplinkCounter |-> s.uplinkCounter,
                               downlinkCounter |-> s.downlinkCounter,
                               joined |-> TRUE]]

\* ----------------------------------------------------------- confirmation
resetConfirmationState(s) ==
    [s EXCEPT !.confirmState = "NONE", !.confirmRetries = 0,
              !.pendingAck = <<>>, !.ackPort = 0]

\* -------------------------------------------------------------------- ADR
updateTxParamsForADR(s) ==
    LET s1 == IF s.rfmSF < 12
              THEN [s EXCEPT !.rfmSF = @ + 1, !.current_sf = s.rfmSF + 1]
              ELSE s
        s2 == IF s1.current_power < 14
              THEN [s1 EXCEPT !.current_power = @ + 2,
                              !.rfmPower = s1.current_power + 2]
              ELSE s1
    IN [s2 EXCEPT !.adrAckCounter = ADR_ACK_LIMIT]

\* ----------------------------------------------------------- MAC commands
\* the command identifiers of LoRaWAN.hpp
MAC_LINK_CHECK_REQ == 2
MAC_LINK_CHECK_ANS == 2
MAC_LINK_ADR_REQ == 3
MAC_LINK_ADR_ANS == 3
MAC_DUTY_CYCLE_REQ == 4
MAC_DUTY_CYCLE_ANS == 4
MAC_RX_PARAM_SETUP_REQ == 5
MAC_RX_PARAM_SETUP_ANS == 5
MAC_DEV_STATUS_REQ == 6
MAC_DEV_STATUS_ANS == 6
\* processMACCommands: the battery level reported in DevStatusAns
BATTERY == 254

\* a ^ b on bytes
RECURSIVE XorBits(_, _, _)
XorBits(a, b, n) ==
    IF n = 0 THEN 0
    ELSE ((a + b) % 2) + 2 * XorBits(a \div 2, b \div 2, n - 1)

Xor(a, b) == XorBits(a, b, 8)

\* the commands buffer byte at a C++ index; past the end the read returns
\* whatever memory holds there
ByteAt(commands, index, junk) ==
    IF index < Len(commands) THEN commands[index + 1] ELSE junk % 256

\* chmask & (1 << i)
MaskBit(chmask, i) == (chmask \div (2 ^ i)) % 2 = 1

\* processLinkADRReq: the data-rate, power and channel-mask checks of EU868,
\* as the status byte
LinkADRStatus(dr, txpower, chmaskcntl) ==
    (IF dr > 7 THEN 0 ELSE 4)
    + (IF txpower > 7 THEN 0 ELSE 2)
    + (IF chmaskcntl > 4 THEN 0 ELSE 1)

\* processLinkADRReq: SF and bandwidth of an EU868 data rate, and the dBm of
\* a power index, both clamped as the code clamps them
LinkADRSf(dr) == Max(7, Min(12, IF dr < 6 THEN 12 - dr ELSE 7))
LinkADRBw(dr) == IF dr = 6 THEN 250 ELSE 125
LinkADRPower(txpower) == Min(MAX_POWER, Max(2, MAX_POWER - (txpower * 2)))

\* processLinkADRReq(cmd, index, response); index is the C++ index of the CID
processLinkADRReq(s, cmd, index) ==
    IF index + 4 >= Len(cmd) THEN s
    ELSE LET datarate_txpower == cmd[index + 2]
             dr == (datarate_txpower \div 16) % 16
             txpower == datarate_txpower % 16
             chmask == cmd[index + 4] * 256 + cmd[index + 3]
             redundancy == cmd[index + 5]
             chmaskcntl == (redundancy \div 16) % 8
             nbRep == Min(15, Max(1, redundancy % 16))
             status == LinkADRStatus(dr, txpower, chmaskcntl)
             committed ==
                 [s EXCEPT !.rfmSF = LinkADRSf(dr), !.current_sf = LinkADRSf(dr),
                           !.rfmBW = LinkADRBw(dr), !.current_bw = LinkADRBw(dr),
                           !.rfmPower = LinkADRPower(txpower),
                           !.txPower = LinkADRPower(txpower),
                           !.channelFrequencies =
                               IF chmaskcntl = 0
                               THEN [i \in Channels |->
                                       IF i < 8
                                       THEN IF MaskBit(chmask, i)
                                            THEN BASE_FREQ + i * CHANNEL_STEP
                                            ELSE 0
                                       ELSE @[i]]
                               ELSE @,
                           !.current_nbRep = nbRep,
                           !.adrAckCounter = 0]
         IN [(IF status = 7 THEN committed ELSE s)
               EXCEPT !.response = Append(Append(@, MAC_LINK_ADR_ANS), status)]

\* processMACCommands, case MAC_RX_PARAM_SETUP_REQ with its parameters read
RxParamSetup(s, dlSettings, freq_value) ==
    LET offset == (dlSettings \div 16) % 8
        datarate == dlSettings % 16
        status == 4 + (IF datarate > 7 THEN 0 ELSE 2)
                    + (IF freq_value < 1000000 \/ freq_value > 10000000
                       THEN 0 ELSE 1)
    IN [s EXCEPT !.rx1DrOffset = offset, !.rx2DataRate = datarate,
                 !.response = Append(Append(@, MAC_RX_PARAM_SETUP_ANS), status)]

\* processMACCommands: one turn of the switch; index is the C++ index after
\* the CID was read, .ret the index the loop goes on with
MacCommand(s, commands, cmd, index, margin, junk) ==
    LET size == Len(commands)
    IN CASE cmd = MAC_LINK_ADR_REQ ->
              IF index + 4 <= size
              THEN [processLinkADRReq(s, commands, index - 1) EXCEPT !.ret = index + 4]
              ELSE [s EXCEPT !.ret = index]
         [] cmd = MAC_DUTY_CYCLE_REQ ->
              IF index < size
              THEN [s EXCEPT !.response = Append(@, MAC_DUTY_CYCLE_ANS),
                             !.ret = index + 1]
              ELSE [s EXCEPT !.ret = index]
         [] cmd = MAC_DEV_STATUS_REQ ->
              [s EXCEPT !.response = @ \o <<MAC_DEV_STATUS_ANS, BATTERY, margin>>,
                        !.ret = index]
         [] cmd = MAC_LINK_CHECK_ANS ->
              [s EXCEPT !.ret = IF index + 1 < size THEN index + 2 ELSE index]
         [] cmd = MAC_RX_PARAM_SETUP_REQ ->
              IF index + 3 <= size
              THEN [RxParamSetup(s, commands[index + 1],
                                 commands[index + 2] * 65536
                                   + commands[index + 3] * 256
                                   + ByteAt(commands, index + 3, junk))
                      EXCEPT !.ret = index + 4,
                             !.lastCall.pastEnd = @ \/ (index + 3 >= size)]
              ELSE [s EXCEPT !.ret = index]
         [] OTHER -> [s EXCEPT !.unknown = TRUE, !.ret = index]

\* what a command can change, beside the loop index
MacEffect(s) ==
    <<s.response, s.rfmSF, s.rfmBW, s.rfmPower, s.current_sf, s.current_bw,
      s.txPower, s.channelFrequencies, s.current_nbRep, s.adrAckCounter,
      s.rx1DrOffset, s.rx2DataRate>>

\* processMACCommands: the while loop from index on; it is noted when a
\* command takes effect after an unrecognized CID
RECURSIVE MacLoop(_, _, _, _, _)
MacLoop(s, commands, index, margin, junk) ==
    IF index >= Len(commands) THEN s
    ELSE Bind(MacCommand(s, commands, commands[index + 1], index + 1, margin, junk),
              LAMBDA done :
                MacLoop([done EXCEPT !.lastCall.afterUnknown =
                                        @ \/ (s.unknown /\ MacEffect(done) # MacEffect(s))],
                        commands, done.ret, margin, junk))

\* processMACCommands(commands, response) on an empty response vector;
\* margin is the SNR the radio reports, clamped to -32..31
processMACCommands(s, commands, margin, junk) ==
    [MacLoop([s EXCEPT !.response = <<>>, !.unknown = FALSE], commands, 0,
             margin, junk)
       EXCEPT !.unknown = FALSE, !.ret = FALSE]

\* pendingMACResponses = macResponse, done when the response is not empty
StoreResponse(s) ==
    IF s.response # <<>>
    THEN [s EXCEPT !.pendingMACResponses = s.response, !.response = <<>>]
    ELSE s

\* enableADR(enable)
enableADR(s, enable) == [s EXCEPT !.adrEnabled = enable]

\* requestLinkCheck()
requestLinkCheck(s) ==
    IF ~s.joined THEN s
    ELSE IF Len(s.pendingMACResponses) < 15
         THEN [s EXCEPT !.pendingMACResponses = Append(@, MAC_LINK_CHECK_REQ)]
         ELSE s

\* ------------------------------------------------------------------- send
\* send(): radio set-up for the uplink and the parameters kept for RX1
ConfigureUplink(s) ==
    LET freq == IF s.one_channel_gateway THEN s.one_channel_freq
                ELSE s.channelFrequencies[BestChannel(s)]
        sf == IF s.one_channel_gateway THEN s.one_channel_sf ELSE s.current_sf
        bw == IF s.one_channel_gateway THEN INIT_BW ELSE s.current_bw
    IN [s EXCEPT !.rfmMode = "STDBY", !.rfmFreq = freq, !.rfmSF = sf,
                 !.rfmBW = bw,
                 !.current_channel = getChannelFromFrequency(s.channelFrequencies, freq),
                 !.current_sf = sf, !.current_bw = bw]

\* send(): the pending MAC responses go into FOpts, 15 bytes at most, and
\* leave the buffer as the frame is built
TakeFOpts(s) ==
    LET mac_size == Min(15, Len(s.pendingMACResponses))
        fopts == SubSeq(s.pendingMACResponses, 1, mac_size)
    IN [s EXCEPT !.pendingMACResponses =
                     SubSeq(@, mac_size + 1, Len(@)),
                 !.lastCall.fopts = IF @ = <<>> THEN fopts ELSE @]

\* send(): the duty-cycle gate; a forced send skips it altogether
DutyCycleGate(s, packetSize, force_duty_cycle) ==
    IF force_duty_cycle THEN s
    ELSE Bind(checkDutyCycle(s, DUTY_FREQ, packetSize), LAMBDA checked :
           IF checked.ret THEN checked ELSE DutyCycleWait(s, packetSize))

\* a counter that moves on every attempt
FCntAfterAttempt(cnt, result) == cnt + 1

\* the frame counter after rfm->send returned result
FCntAfterSend(cnt, result) == IF result THEN cnt + 1 ELSE cnt

\* what the air interface saw of a transmission that starts in state s
ObserveTx(s, airTime) ==
    [s EXCEPT !.lastCall.rxStateAtTx = s.rxState,
              !.rx1Accepted = FALSE,
              !.rx1OpenedAt = -1,
              !.rx2OpenedAt = -1,
              !.sameChGap = IF s.lastTxFreq = s.rfmFreq THEN s.sinceTxEnd ELSE -1,
              !.sameChAir = s.lastTxAir,
              !.lastTxFreq = s.rfmFreq,
              !.lastTxAir = airTime,
              !.hourAir = IF s.upTime + (airTime \div 1000) <= HOUR_MS
                          THEN [f \in DOMAIN @ |-> IF f = s.rfmFreq THEN @[f] + airTime ELSE @[f]]
                          ELSE @,
              !.lastCall.tx = @ + 1,
              !.lastCall.gap = s.sinceTxEnd]

\* send(): the branch after rfm->send returned true
SendSucceeded(s, packetSize, force_duty_cycle, junk) ==
    Bind(calculateTimeOnAir(packetSize, s.rfmSF, s.rfmBW), LAMBDA airTime :
    Bind(Advance(ObserveTx(s, airTime), airTime \div 1000), LAMBDA s1 :
    Bind([s1 EXCEPT !.rfmMode = "STDBY",
                    !.uplinkCounter = FCntAfterSend(@, TRUE),
                    !.elapsedSinceTx = 0,
                    !.sinceTxEnd = 0,
                    !.rxState = "RX_WAIT_1"], LAMBDA s2 :
    Bind(IF s2.adrEnabled
         THEN IF s2.adrAckCounter + 1 > ADR_ACK_LIMIT + ADR_ACK_DELAY
              THEN updateTxParamsForADR([s2 EXCEPT !.adrAckCounter = @ + 1])
              ELSE [s2 EXCEPT !.adrAckCounter = @ + 1]
         ELSE s2, LAMBDA s3 :
    Bind(saveSessionData(s3), LAMBDA s4 :
      IF s4.currentClass = "CLASS_C"
      THEN ListenRX2(s4)
      ELSE Standby(Listen(s4, ChanFreq(s4, s4.current_channel, junk),
                          s4.current_sf, s4.current_bw)))))))

\* send(): the branch after rfm->send returned false
SendFailed(s) ==
    LET s1 == [s EXCEPT !.rxState = "RX_IDLE",
                        !.uplinkCounter = FCntAfterSend(@, FALSE)]
    IN IF s1.currentClass = "CLASS_C" THEN ListenRX2(s1) ELSE s1

\* send(): the confirmation tracker after the transmission
TrackConfirmation(s, data, port, confirmed, ackbit, result) ==
    LET s1 == IF confirmed /\ result
              THEN [s EXCEPT !.confirmState = "WAITING_ACK",
                             !.confirmRetries = @ + 1,
                             !.elapsedSinceConfirm = 0,
                             !.pendingAck = data,
                             !.ackPort = port]
              ELSE s
    IN IF ackbit /\ result THEN resetConfirmationState(s1) ELSE s1

\* send(): an uplink never carries the ACK bit
UplinkAckNever(state) == FALSE

\* send(): the uplink carries the ACK bit (MHDR and FCtrl bit 5) when the
\* tracker is in ACK_PENDING; the member needsAck is never set
UplinkAck(state) == state = "ACK_PENDING"

\* bool send(data, port, confirmed, force_duty_cycle); result is what
\* rfm->send returns, junk what an out-of-range channel index reads
\* byte j of keystream block number block: AES of the A block (direction,
\* DevAddr, frame counter, block counter) under the key, as a fixed function of
\* what the A block and the key hold; port 0 takes NwkSKey, others AppSKey
KeyStream(port, key, addr, fcnt, block, j) ==
    ((IF port = 0 THEN 101 ELSE 53) + key * 61 + addr * 17 + fcnt * 29
       + block * 7 + j * 37) % 256

\* encryptPayload(payload, port): nothing for an empty payload, else the
\* XOR with the first keystream block of the current uplink counter
encryptPayload(s, payload, port) ==
    [i \in 1 .. Len(payload) |->
        Xor(payload[i],
            KeyStream(port, IF port = 0 THEN s.nwkSKey ELSE s.appSKey, s.devAddr,
                      s.uplinkCounter % 65536, 1, (i - 1) % 16))]

\* the packet send() builds: MHDR (with the ACK bit or-ed in), the four
\* bytes of DevAddr, FCtrl (FOptsLen, ADR, ADRACKReq, ACK), FCnt, FOpts,
\* FPort, FRMPayload, and the first four bytes of the CMAC as MIC
BuildPacket(s, data, port, confirmed, ackbit) ==
    LET mhdr == (IF confirmed THEN 128 ELSE 64) + (IF ackbit THEN 32 ELSE 0)
        v == s.devAddr
        fopts_len == Min(15, Len(s.pendingMACResponses))
        fctrl == fopts_len
                   + (IF s.adrEnabled THEN 128 ELSE 0)
                   + (IF s.adrAckCounter >= ADR_ACK_LIMIT THEN 64 ELSE 0)
                   + (IF ackbit THEN 32 ELSE 0)
        mic == <<0, 0, 0, 0>>
    IN <<mhdr, (v \div 16777216) % 256, (v \div 65536) % 256,
         (v \div 256) % 256, v % 256,
         fctrl, s.uplinkCounter % 256, (s.uplinkCounter \div 256) % 256>>
         \o SubSeq(s.pendingMACResponses, 1, fopts_len)
         \o <<port>>
         \o encryptPayload(s, data, port)
         \o mic

send(s, data, port, confirmed, force_duty_cycle, result, junk) ==
    IF ~s.joined THEN [s EXCEPT !.ret = FALSE]
    ELSE IF confirmed /\ s.confirmState = "WAITING_ACK" THEN [s EXCEPT !.ret = FALSE]
    ELSE LET ackbit == UplinkAck(s.confirmState)
             packetSize == Len(data) + 13
         IN Bind([TakeFOpts(ConfigureUplink(s))
                    EXCEPT !.lastCall.packet =
                               BuildPacket(s, data, port, confirmed, ackbit),
                           !.lastCall.frm = data,
                           !.lastCall.confirmedTx = confirmed,
                           !.lastCall.ackbit = ackbit,
                           !.lastCall.txFreq =
                               IF s.one_channel_gateway THEN -1
                               ELSE s.channelFrequencies[BestChannel(s)],
                           !.lastCall.txUsage =
                               getDutyCycleUsage(s, BestChannel(s)),
                           !.lastCall.activeUsages =
                               {getDutyCycleUsage(s, i) :
                                  i \in {j \in 0 .. 7 : s.channelFrequencies[j] > 0}}],
                 LAMBDA s0 :
            Bind(DutyCycleGate(s0, packetSize, force_duty_cycle), LAMBDA s1 :
            Bind(IF result
                 THEN SendSucceeded(s1, packetSize, force_duty_cycle, junk)
                 ELSE SendFailed(s1), LAMBDA s2 :
              [TrackConfirmation(s2, data, port, confirmed, ackbit, result)
                 EXCEPT !.ret = result,
                        !.lastCall.ack = IF result THEN ackbit ELSE @])))

\* ------------------------------------------------------------- RX windows
\* updateRxWindows, case RX_WAIT_1 with the delay over: RX1 opens on the
\* uplink channel, the SF raised by rx1DrOffset
\* RX1 taken for RX2
OpenRX1InWindow2(s, junk) ==
    [s EXCEPT !.rxState = "RX_WINDOW_2", !.elapsedSinceWindow = 0]

OpenRX1(s, junk) ==
    [Listen(s, ChanFreq(s, s.current_channel, junk),
            IF s.rx1DrOffset > 0 THEN Min(s.current_sf + s.rx1DrOffset, 12)
            ELSE s.current_sf,
            s.current_bw)
        EXCEPT !.rxState = "RX_WINDOW_1",
               !.elapsedSinceWindow = 0,
               !.rx1OpenedAt = s.sinceTxEnd]

\* openRX2Window: SF and bandwidth of rx2DataRate once an RXParamSetupReq
\* has set it
openRX2Window(s) ==
    [Listen(s, RX2_FREQ,
            IF s.rx2DataRate = 0 THEN RX2_SF
            ELSE IF s.rx2DataRate < 6 THEN 12 - s.rx2DataRate ELSE 7,
            IF s.rx2DataRate = 6 THEN 250 ELSE RX2_BW)
        EXCEPT !.rxState = "RX_WINDOW_2",
               !.elapsedSinceWindow = 0,
               !.rx2OpenedAt = s.sinceTxEnd]

updateRxWindows(s, junk) ==
    IF ~s.joined \/ s.rxState = "RX_IDLE" THEN s
    ELSE CASE s.rxState = "RX_WAIT_1" ->
                IF s.elapsedSinceTx >= RECEIVE_DELAY1 THEN OpenRX1(s, junk) ELSE s
           [] s.rxState = "RX_WINDOW_1" ->
                IF s.elapsedSinceWindow >= WINDOW_DURATION
                THEN IF s.elapsedSinceTx < RECEIVE_DELAY2
                     THEN [s EXCEPT !.rxState = "RX_WAIT_2"]
                     ELSE openRX2Window(s)
                ELSE s
           [] s.rxState = "RX_WAIT_2" ->
                IF s.elapsedSinceTx >= RECEIVE_DELAY2 THEN openRX2Window(s) ELSE s
           [] s.rxState = "RX_WINDOW_2" ->
                IF s.elapsedSinceWindow >= WINDOW_DURATION
                THEN IF s.currentClass = "CLASS_C"
                     THEN [s EXCEPT !.rxState = "RX_CONTINUOUS"]
                     ELSE [Standby(s) EXCEPT !.rxState = "RX_IDLE"]
                ELSE s
           [] OTHER -> s

\* ------------------------------------------------- confirmation handling
\* a retry rule that allows one attempt more
RetryDueOnceMore(s) ==
    (s.elapsedSinceConfirm \div 1000) >= RETRY_SECONDS /\ s.confirmRetries <= MAX_RETRIES

\* the retry is due: 5 whole seconds since the last attempt, retries left
RetryDue(s) ==
    (s.elapsedSinceConfirm \div 1000) >= RETRY_SECONDS /\ s.confirmRetries < MAX_RETRIES

handleConfirmation(s, result, junk) ==
    IF s.confirmState # "WAITING_ACK" THEN s
    ELSE IF RetryDue(s)
         THEN Bind(send([s EXCEPT !.confirmState = "NONE"],
                        s.pendingAck, s.ackPort, TRUE, FALSE, result, junk),
                   LAMBDA sent :
                     IF ~sent.ret THEN [sent EXCEPT !.confirmState = s.confirmState]
                     ELSE sent)
         ELSE IF s.confirmRetries >= MAX_RETRIES
              THEN resetConfirmationState(s)
              ELSE s

sendAck(s, result, junk) ==
    IF s.confirmState # "ACK_PENDING" THEN s
    ELSE Bind(send(s, <<>>, 0, FALSE, TRUE, result, junk), LAMBDA sent :
           [resetConfirmationState(sent) EXCEPT !.confirmState = s.confirmState])

\* -------------------------------------------------------------- downlinks
\* mhdr & 0xE0, and a single bit of a byte
MType(mhdr) == (mhdr \div 32) * 32
Bit(byte, k) == (byte \div (2 ^ k)) % 2

\* decryptPayload(payload, port): XOR with the keystream of the current
\* downlink counter
decryptPayload(s, payload, port) ==
    [i \in 1 .. Len(payload) |->
        Xor(payload[i],
            KeyStream(port, IF port = 0 THEN s.nwkSKey ELSE s.appSKey, s.devAddr,
                      s.downlinkCounter % 65536, ((i - 1) \div 16) + 1,
                      (i - 1) % 16))]

\* payload[8] when the frame has it, and the bytes between it and the MIC
FPortByte(payload) == IF payload.size > 8 THEN payload.body[1] ELSE 0
FRMBytes(payload) ==
    IF payload.size > 9 THEN SubSeq(payload.body, 2, Len(payload.body) - 4)
    ELSE <<>>

\* handleReceivedMessage: what arrives on port 3 is taken as the parameters
\* of a LinkADRReq
Port3Commands(s, payload, junk) ==
    LET port == FPortByte(payload)
        data == decryptPayload(s, FRMBytes(payload), port)
    IN IF port = 3 /\ Len(data) >= 5
       THEN StoreResponse(processMACCommands(
                s, <<MAC_LINK_ADR_REQ>> \o SubSeq(data, 1, 5), payload.margin, junk))
       ELSE s

\* handleReceivedMessage for a data downlink
handleReceivedMessage(s, payload, result1, result2, junk) ==
    LET needsAck == MType(payload.mhdr) = 160
        isAck == Bit(payload.mhdr, 5) = 1
    IN Bind(IF s.adrEnabled THEN [s EXCEPT !.adrAckCounter = 0] ELSE s, LAMBDA s1 :
       Bind(IF needsAck
            THEN IF s1.currentClass = "CLASS_C"
                 THEN sendAck([s1 EXCEPT !.confirmState = "ACK_PENDING"], result1, junk)
                 ELSE [s1 EXCEPT !.confirmState = "ACK_PENDING"]
            ELSE s1, LAMBDA s2 :
       Bind(IF isAck /\ s2.confirmState = "WAITING_ACK"
            THEN resetConfirmationState(s2) ELSE s2, LAMBDA s3 :
       Bind(Port3Commands([s3 EXCEPT !.downlinkCounter = payload.fcnt],
                          payload, junk), LAMBDA s4 :
       Bind(IF needsAck /\ s4.currentClass = "CLASS_C"
            THEN sendAck(s4, result2, junk) ELSE s4, LAMBDA s5 :
         IF Bit(payload.fctrl, 5) = 1 /\ s5.confirmState = "WAITING_ACK"
         THEN resetConfirmationState(s5) ELSE s5)))))

\* update(): the frame passes the length, type and address checks
Accepts(s, payload) ==
    /\ payload.size >= MIN_FRAME
    /\ MType(payload.mhdr) \in {96, 160}
    /\ payload.devAddr = s.devAddr

\* ----------------------------------------------------------------- update
\* handleConfirmation is about to call send(), which clears the IRQ flags
Retries(s) == s.confirmState = "WAITING_ACK" /\ RetryDue(s)

\* update(): the listening configuration taken when the radio is not in
\* continuous receive and no window is open
Relisten(s, junk) ==
    IF s.rfmMode # "RX_CONTINUOUS" /\ s.rxState \notin {"RX_WINDOW_1", "RX_WINDOW_2"}
    THEN IF s.currentClass = "CLASS_C"
         THEN [ListenRX2(s) EXCEPT !.rxState = "RX_CONTINUOUS"]
         ELSE Listen(s, ChanFreq(s, s.current_channel, junk), s.current_sf,
                     s.current_bw)
    ELSE s

\* update(): the FOptsLen bytes from payload[8] on
FOptsBytes(payload, junk) ==
    [i \in 1 .. (payload.fctrl % 16) |->
        IF i <= Len(payload.body) THEN payload.body[i] ELSE junk % 256]

\* update(): the MAC commands of an accepted downlink, those in FOpts and
\* then those of a frame whose payload[8] is 0
DownlinkCommands(s, payload, junk) ==
    Bind(IF payload.fctrl % 16 > 0
         THEN StoreResponse(processMACCommands(s, FOptsBytes(payload, junk),
                                               payload.margin, junk))
         ELSE s, LAMBDA s1 :
      IF payload.size > 9 /\ payload.body[1] = 0
      THEN StoreResponse(processMACCommands(
               s1, decryptPayload(s1, FRMBytes(payload), 0), payload.margin, junk))
      ELSE s1)

\* update(): the part run when the radio flags RxDone; inRx1 says that RX1
\* was open when update() was entered and still is
ProcessRxDone(s, payload, result2, result3, junk, inRx1) ==
    Bind(IF ~payload.crcError /\ payload.size > 0 /\ Accepts(s, payload)
         THEN Bind([s EXCEPT !.rx1Accepted = @ \/ inRx1],
                   LAMBDA noted :
                     Bind(handleReceivedMessage(noted, payload, result2, result3, junk),
                          LAMBDA handled : DownlinkCommands(handled, payload, junk)))
         ELSE s, LAMBDA s1 :
      [s1 EXCEPT !.rfmMode = "RX_CONTINUOUS"])

\* void update(); payload is the frame the radio holds (done = RxDone flag),
\* result1..3 what rfm->send returns to the sends update() may make
update(s, payload, result1, result2, result3, junk) ==
    IF ~s.joined THEN s
    ELSE Bind(updateRxWindows(s, junk), LAMBDA s1 :
         Bind(handleConfirmation(s1, result1, junk), LAMBDA s2 :
         Bind(Relisten(s2, junk), LAMBDA s3 :
           IF payload.done /\ ~Retries(s1)
           THEN ProcessRxDone(s3, payload, result2, result3, junk,
                              s.rxState = "RX_WINDOW_1" /\ s3.rxState = "RX_WINDOW_1")
           ELSE s3)))

\* ------------------------------------------------------------------- join
\* the value of a uint16_t that nothing has written yet: the constructor
\* leaves lastDevNonce alone, and so does loadSession with the SessionData
\* it fills; no code reads lastDevNonce before buildJoinRequest has set it
\* other than to copy it
Indeterminate == -1

\* Impl::loadSessionData: copies what loadSession found into memory; the
\* DevNonce fields come from a SessionData that loadSession has not touched
loadSessionData(s) ==
    IF s.sessionFile.exists /\ s.sessionFile.complete
    THEN [s EXCEPT !.devAddr = ReverseBytes(s.sessionFile.devAddr),
                   !.nwkSKey = s.sessionFile.nwkSKey,
                   !.appSKey = s.sessionFile.appSKey,
                   !.uplinkCounter = s.sessionFile.uplinkCounter,
                   !.downlinkCounter = s.sessionFile.downlinkCounter,
                   !.lastDevNonce = Indeterminate,
                   !.usedNonces = <<>>,
                   !.ret = s.sessionFile.joined]
    ELSE [s EXCEPT !.ret = FALSE]

\* the nonce is in the history
Used(s, nonce) == \E i \in 1 .. Len(s.usedNonces) : s.usedNonces[i] = nonce

\* generateDevNonce with the newest entry erased once the history is full
generateDevNonceEvictNewest(s, nonce) ==
    LET pushed == Append(s.usedNonces, nonce)
    IN [s EXCEPT !.usedNonces = IF Len(pushed) > MAX_NONCES
                                THEN SubSeq(pushed, 1, MAX_NONCES)
                                ELSE pushed,
                 !.ret = nonce]

\* Impl::generateDevNonce, the turn of the loop in which rand() gives a
\* nonce that is not in the history
generateDevNonce(s, nonce) ==
    LET pushed == Append(s.usedNonces, nonce)
    IN [s EXCEPT !.usedNonces = IF Len(pushed) > MAX_NONCES THEN Tail(pushed)
                                ELSE pushed,
                 !.ret = nonce]

\* Impl::buildJoinRequest with the nonce the generation ends on
buildJoinRequest(s, nonce) ==
    [generateDevNonce(s, nonce) EXCEPT !.lastDevNonce = nonce, !.ret = FALSE]

\* one turn of generateDevNonce's while loop, rand() % 0xFFFF + 1 being
\* nonce: a used value is thrown away, an unused one ends the loop and
\* buildJoinRequest goes on with it
DrawNonce(s, nonce) ==
    IF Used(s, nonce) THEN [s EXCEPT !.candidate = nonce]
    ELSE [buildJoinRequest(s, nonce) EXCEPT !.candidate = nonce,
                                            !.isUnique = TRUE]

validateKeys(s) == s.devAddr # 0 /\ s.nwkSKey # 0 /\ s.appSKey # 0

\* the session keys AES derives from AppKey, AppNonce, NetID and DevNonce
DerivedKey == 1

\* the DLSettings byte of the modelled Join-Accepts (RX1DRoffset 0, RX2
\* data rate 14)
DLSETTINGS == 14

\* the session a Join-Accept brings
AcceptedSession(s, response) ==
    [s EXCEPT !.devAddr = response.devAddr,
              !.nwkSKey = DerivedKey,
              !.appSKey = DerivedKey,
              !.txPower = DLSETTINGS % 16,
              !.uplinkCounter = 0,
              !.downlinkCounter = 0,
              !.ret = TRUE]

\* a Join-Accept taken for good without a look at its MIC
processJoinAcceptUnchecked(s, response) ==
    IF response.size < 17 THEN [s EXCEPT !.ret = FALSE]
    ELSE AcceptedSession(s, response)

\* Impl::processJoinAccept: length and MIC checks, then the new session
processJoinAccept(s, response) ==
    IF response.size < 17 \/ ~response.micOk THEN [s EXCEPT !.ret = FALSE]
    ELSE AcceptedSession(s, response)

\* join(): a frame read in a join window; joined and saved if it is accepted
JoinReceive(s, response) ==
    Bind([processJoinAccept(s, response)
            EXCEPT !.lastCall.badMic = @ \/ (response.size >= 17 /\ ~response.micOk)],
         LAMBDA accepted :
      IF accepted.ret
      THEN [saveSessionData([accepted EXCEPT !.joined = TRUE]) EXCEPT !.ret = TRUE]
      ELSE [accepted EXCEPT !.ret = FALSE])

\* a frame is read from the radio: RxDone, no CRC error, not empty
Readable(response) == response.done /\ ~response.crcError /\ response.size > 0

\* join(): RX2 of the join procedure, entered when RX1 read nothing
JoinRX2(s, rx2) ==
    Bind([Listen(s, RX2_FREQ, JOIN_RX2_SF, INIT_BW)
            EXCEPT !.lastCall.joinRx2 = TRUE], LAMBDA s1 :
      IF Readable(rx2)
      THEN Advance(JoinReceive(s1, rx2), RECEIVE_DELAY2 - RECEIVE_DELAY1)
      ELSE [Advance(s1, IF rx2.done THEN RECEIVE_DELAY2 - RECEIVE_DELAY1
                        ELSE RECEIVE_DELAY2 + WINDOW_DURATION)
               EXCEPT !.ret = FALSE])

\* join(), OTAA branch; rnd is rand() % 8, rx1 and rx2 what the radio
\* receives in the two join windows
JoinOTAA(s, rnd, nonce, result, rx1, rx2, junk) ==
    LET freq == IF s.one_channel_gateway THEN s.channelFrequencies[0]
                ELSE s.channelFrequencies[rnd]
    IN Bind([s EXCEPT !.rfmMode = "STDBY", !.rfmFreq = freq, !.rfmSF = INIT_SF,
                      !.rfmBW = INIT_BW, !.rfmPower = MAX_POWER,
                      !.current_channel = freq \div 1000,
                      !.lastCall.txFreq = freq,
                      !.current_power = MAX_POWER,
                      !.current_sf = INIT_SF,
                      !.current_bw = INIT_BW,
                      !.lastDevNonce = buildJoinRequest(s, nonce).lastDevNonce,
                      !.usedNonces = buildJoinRequest(s, nonce).usedNonces],
            LAMBDA s1 :
       Bind([Listen(s1, ChanFreq(s1, s1.current_channel, junk), s1.current_sf,
                    s1.current_bw)
               EXCEPT !.lastCall.joinReq = TRUE], LAMBDA s2 :
         IF ~result THEN [s1 EXCEPT !.ret = FALSE]
         ELSE IF Readable(rx1)
              THEN Advance(JoinReceive(s2, rx1), RECEIVE_DELAY1)
              ELSE Bind(Advance(s2, RECEIVE_DELAY1), LAMBDA s3 : JoinRX2(s3, rx2))))

\* bool join(mode)
join(s, mode, rnd, nonce, result, rx1, rx2, junk) ==
    Bind(IF ~s.joined THEN loadSessionData(s) ELSE [s EXCEPT !.ret = FALSE],
         LAMBDA s1 :
           IF s1.ret THEN [s1 EXCEPT !.joined = TRUE]
           ELSE IF mode = "OTAA"
                THEN JoinOTAA(s1, rnd, nonce, result, rx1, rx2, junk)
                ELSE [s1 EXCEPT !.joined = validateKeys(s1),
                                !.ret = validateKeys(s1)])

\* ------------------------------------------------------- other operations
setDeviceClass(s, deviceClass) ==
    IF deviceClass = "CLASS_C" /\ s.joined
    THEN [ListenRX2(s) EXCEPT !.currentClass = deviceClass]
    ELSE [s EXCEPT !.currentClass = deviceClass]

resetSession(s) ==
    [s EXCEPT !.devAddr = 0, !.nwkSKey = 0, !.appSKey = 0,
              !.uplinkCounter = 0, !.downlinkCounter = 0,
              !.joined = FALSE, !.sessionFile = NoFile,
              !.usedNonces = <<>>, !.lastDevNonce = 0,
              !.adrAckCounter = 0]

setSingleChannel(s, enable, freq, sf) ==
    [s EXCEPT !.one_channel_gateway = enable,
              !.one_channel_freq = freq,
              !.one_channel_sf = sf]

\* --------------------------------------------------- state as one record
Cur == [joined |-> joined, currentClass |-> currentClass, devAddr |-> devAddr,
        nwkSKey |-> nwkSKey, appSKey |-> appSKey,
        uplinkCounter |-> uplinkCounter, downlinkCounter |-> downlinkCounter,
        adrEnabled |-> adrEnabled, adrAckCounter |-> adrAckCounter,
        current_sf |-> current_sf, current_power |-> current_power,
        confirmState |-> confirmState, confirmRetries |-> confirmRetries,
        elapsedSinceConfirm |-> elapsedSinceConfirm,
        pendingAck |-> pendingAck, ackPort |-> ackPort,
        rxState |-> rxState, elapsedSinceTx |-> elapsedSinceTx,
        elapsedSinceWindow |-> elapsedSinceWindow,
        channelFrequencies |-> channelFrequencies,
        elapsedSinceUse |-> elapsedSinceUse, channelAirTime |-> channelAirTime,
        current_channel |-> current_channel,
        one_channel_gateway |-> one_channel_gateway,
        one_channel_freq |-> one_channel_freq, one_channel_sf |-> one_channel_sf,
        current_bw |-> current_bw, current_nbRep |-> current_nbRep,
        txPower |-> txPower, rx1DrOffset |-> rx1DrOffset,
        rx2DataRate |-> rx2DataRate,
        pendingMACResponses |-> pendingMACResponses,
        usedNonces |-> usedNonces, lastDevNonce |-> lastDevNonce,
        isUnique |-> isUnique, candidate |-> candidate,
        sessionFile |-> sessionFile,
        rfmMode |-> rfmMode, rfmFreq |-> rfmFreq, rfmSF |-> rfmSF,
        rfmBW |-> rfmBW, rfmPower |-> rfmPower,
        lastCall |-> lastCall, rx1Accepted |-> rx1Accepted,
        rx1OpenedAt |-> rx1OpenedAt,
        rx2OpenedAt |-> rx2OpenedAt, sinceCall |-> sinceCall,
        sinceTxEnd |-> sinceTxEnd,
        lastTxFreq |-> lastTxFreq, lastTxAir |-> lastTxAir,
        sameChGap |-> sameChGap, sameChAir |-> sameChAir,
        upTime |-> upTime, hourAir |-> hourAir,
        ret |-> FALSE, response |-> <<>>, unknown |-> FALSE]

Apply(state) ==
  \E s \in {state} :
    /\ joined' = s.joined /\ currentClass' = s.currentClass
    /\ devAddr' = s.devAddr /\ nwkSKey' = s.nwkSKey /\ appSKey' = s.appSKey
    /\ uplinkCounter' = s.uplinkCounter /\ downlinkCounter' = s.downlinkCounter
    /\ adrEnabled' = s.adrEnabled /\ adrAckCounter' = s.adrAckCounter
    /\ current_sf' = s.current_sf /\ current_power' = s.current_power
    /\ confirmState' = s.confirmState /\ confirmRetries' = s.confirmRetries
    /\ elapsedSinceConfirm' = s.elapsedSinceConfirm
    /\ pendingAck' = s.pendingAck /\ ackPort' = s.ackPort
    /\ rxState' = s.rxState /\ elapsedSinceTx' = s.elapsedSinceTx
    /\ elapsedSinceWindow' = s.elapsedSinceWindow
    /\ channelFrequencies' = s.channelFrequencies
    /\ elapsedSinceUse' = s.elapsedSinceUse /\ channelAirTime' = s.channelAirTime
    /\ current_channel' = s.current_channel
    /\ one_channel_gateway' = s.one_channel_gateway
    /\ one_channel_freq' = s.one_channel_freq /\ one_channel_sf' = s.one_channel_sf
    /\ current_bw' = s.current_bw /\ current_nbRep' = s.current_nbRep
    /\ txPower' = s.txPower /\ rx1DrOffset' = s.rx1DrOffset
    /\ rx2DataRate' = s.rx2DataRate
    /\ pendingMACResponses' = s.pendingMACResponses
    /\ usedNonces' = s.usedNonces /\ lastDevNonce' = s.lastDevNonce
    /\ isUnique' = s.isUnique /\ candidate' = s.candidate
    /\ sessionFile' = s.sessionFile
    /\ rfmMode' = s.rfmMode /\ rfmFreq' = s.rfmFreq /\ rfmSF' = s.rfmSF
    /\ rfmBW' = s.rfmBW /\ rfmPower' = s.rfmPower
    /\ lastCall' = s.lastCall /\ rx1Accepted' = s.rx1Accepted
    /\ rx1OpenedAt' = s.rx1OpenedAt
    /\ rx2OpenedAt' = s.rx2OpenedAt /\ sinceCall' = s.sinceCall
    /\ sinceTxEnd' = s.sinceTxEnd
    /\ lastTxFreq' = s.lastTxFreq /\ lastTxAir' = s.lastTxAir
    /\ sameChGap' = s.sameChGap /\ sameChAir' = s.sameChAir
    /\ upTime' = s.upTime /\ hourAir' = s.hourAir

\* ------------------------------------------------------------ initial state
\* what a read past the end of channelFrequencies may return
JunkFreqs == {0, 433175}
TxFreqs == {BASE_FREQ + i * CHANNEL_STEP : i \in 0 .. 7} \cup JunkFreqs

\* a frame as the radio hands it over: its length, MHDR, DevAddr, FCtrl and
\* FCnt, the bytes from payload[8] on (body), and the SNR it came with
NoFrame == [done |-> FALSE, crcError |-> FALSE, size |-> 0, mhdr |-> 0,
            devAddr |-> 0, fctrl |-> 0, fcnt |-> 0, micOk |-> FALSE,
            body |-> <<>>, margin |-> 0]

\* what is noted of an API call: its result, the uplinks and the Join-Request
\* it put on the air (and the RX state at its last uplink), and whether it
\* found the device joined
NoCall == [op |-> "none", ret |-> FALSE, confirmed |-> FALSE, stashed |-> FALSE,
           tx |-> 0, joinReq |-> FALSE, wasJoined |-> FALSE,
           rxStateAtTx |-> "RX_IDLE", ackRx |-> FALSE, gap |-> -1,
           ack |-> FALSE, needsAckRx |-> FALSE, fopts |-> <<>>,
           afterUnknown |-> FALSE, rx |-> NoFrame, before |-> <<>>,
           badMic |-> FALSE, joinRx2 |-> FALSE,
           packet |-> <<>>, frm |-> <<>>, confirmedTx |-> FALSE,
           ackbit |-> FALSE, plainRx |-> FALSE, pastEnd |-> FALSE, txFreq |-> -1, txUsage |-> 0, activeUsages |-> {}]

\* the observation variables that only the timing specifications follow
Unobserved(s) ==
    [s EXCEPT !.rx1OpenedAt = -1, !.rx2OpenedAt = -1, !.sinceCall = 0,
              !.sinceTxEnd = AgeCap, !.lastTxFreq = 0, !.lastTxAir = 0, !.sameChGap = -1,
              !.sameChAir = 0, !.upTime = 0,
              !.hourAir = [f \in TxFreqs |-> 0]]

\* the object after its constructor and init(), with the session file found
Constructed(file) ==
    [joined |-> FALSE, currentClass |-> "CLASS_A", devAddr |-> 0,
     nwkSKey |-> 0, appSKey |-> 0, uplinkCounter |-> 0, downlinkCounter |-> 0,
     adrEnabled |-> FALSE, adrAckCounter |-> 0,
     current_sf |-> INIT_SF, current_power |-> INIT_POWER,
     confirmState |-> "NONE", confirmRetries |-> 0,
     elapsedSinceConfirm |-> ConfirmCap, pendingAck |-> <<>>, ackPort |-> 0,
     rxState |-> "RX_IDLE", elapsedSinceTx |-> TxCap,
     elapsedSinceWindow |-> WindowCap,
     channelFrequencies |-> [i \in Channels |->
                               IF i < 8 THEN BASE_FREQ + i * CHANNEL_STEP ELSE 0],
     elapsedSinceUse |-> [i \in Channels |-> AgeCap],
     channelAirTime |-> [i \in Channels |-> 0],
     current_channel |-> 0,
     one_channel_gateway |-> FALSE, one_channel_freq |-> BASE_FREQ,
     one_channel_sf |-> INIT_SF,
     current_bw |-> INIT_BW, current_nbRep |-> 1, txPower |-> INIT_POWER,
     rx1DrOffset |-> 0, rx2DataRate |-> 0, pendingMACResponses |-> <<>>,
     usedNonces |-> <<>>, lastDevNonce |-> Indeterminate,
     isUnique |-> TRUE, candidate |-> 0,
     sessionFile |-> file,
     rfmMode |-> "STDBY", rfmFreq |-> BASE_FREQ, rfmSF |-> INIT_SF,
     rfmBW |-> INIT_BW, rfmPower |-> INIT_POWER,
     lastCall |-> NoCall, rx1Accepted |-> FALSE,
     rx1OpenedAt |-> -1, rx2OpenedAt |-> -1, sinceCall |-> 0,
     sinceTxEnd |-> AgeCap,
     lastTxFreq |-> 0, lastTxAir |-> 0, sameChGap |-> -1, sameChAir |-> 0,
     upTime |-> 0, hourAir |-> [f \in TxFreqs |-> 0],
     ret |-> FALSE, response |-> <<>>, unknown |-> FALSE]

Start(state) ==
  \E s \in {state} :
    /\ joined = s.joined /\ currentClass = s.currentClass
    /\ devAddr = s.devAddr /\ nwkSKey = s.nwkSKey /\ appSKey = s.appSKey
    /\ uplinkCounter = s.uplinkCounter /\ downlinkCounter = s.downlinkCounter
    /\ adrEnabled = s.adrEnabled /\ adrAckCounter = s.adrAckCounter
    /\ current_sf = s.current_sf /\ current_power = s.current_power
    /\ confirmState = s.confirmState /\ confirmRetries = s.confirmRetries
    /\ elapsedSinceConfirm = s.elapsedSinceConfirm
    /\ pendingAck = s.pendingAck /\ ackPort = s.ackPort
    /\ rxState = s.rxState /\ elapsedSinceTx = s.elapsedSinceTx
    /\ elapsedSinceWindow = s.elapsedSinceWindow
    /\ channelFrequencies = s.channelFrequencies
    /\ elapsedSinceUse = s.elapsedSinceUse /\ channelAirTime = s.channelAirTime
    /\ current_channel = s.current_channel
    /\ one_channel_gateway = s.one_channel_gateway
    /\ one_channel_freq = s.one_channel_freq /\ one_channel_sf = s.one_channel_sf
    /\ current_bw = s.current_bw /\ current_nbRep = s.current_nbRep
    /\ txPower = s.txPower /\ rx1DrOffset = s.rx1DrOffset
    /\ rx2DataRate = s.rx2DataRate
    /\ pendingMACResponses = s.pendingMACResponses
    /\ usedNonces = s.usedNonces /\ lastDevNonce = s.lastDevNonce
    /\ isUnique = s.isUnique /\ candidate = s.candidate
    /\ sessionFile = s.sessionFile
    /\ rfmMode = s.rfmMode /\ rfmFreq = s.rfmFreq /\ rfmSF = s.rfmSF
    /\ rfmBW = s.rfmBW /\ rfmPower = s.rfmPower
    /\ lastCall = s.lastCall /\ rx1Accepted = s.rx1Accepted
    /\ rx1OpenedAt = s.rx1OpenedAt
    /\ rx2OpenedAt = s.rx2OpenedAt /\ sinceCall = s.sinceCall
    /\ sinceTxEnd = s.sinceTxEnd
    /\ lastTxFreq = s.lastTxFreq /\ lastTxAir = s.lastTxAir
    /\ sameChGap = s.sameChGap /\ sameChAir = s.sameChAir
    /\ upTime = s.upTime /\ hourAir = s.hourAir

Init == Start(Constructed(NoFile))

\* the device after setDevAddr, setNwkSKey, setAppSKey and join(ABP)
Activated ==
    Bind([Constructed(NoFile) EXCEPT !.devAddr = 1, !.nwkSKey = 1, !.appSKey = 1],
         LAMBDA provisioned :
           [join(provisioned, "ABP", 0, 0, TRUE, [done |-> FALSE], [done |-> FALSE], 0)
              EXCEPT !.ret = FALSE])

InitLink == \E c \in DeviceClasses : Start(setDeviceClass(Activated, c))

\* ------------------------------------------------------------------ inputs
Payloads == {<<1>>}
AppPort == 1
KeyValues == {0, 1}

\* a frame of the given length whose payload[8] is the application port
Frame(size, mhdr, addr, fctrl, fcnt, crcError, micOk) ==
    [done |-> TRUE, crcError |-> crcError, size |-> size, mhdr |-> mhdr,
     devAddr |-> addr, fctrl |-> fctrl, fcnt |-> fcnt, micOk |-> micOk,
     body |-> [i \in 1 .. Max(size - 8, 0) |-> IF i = 1 THEN AppPort ELSE 0],
     margin |-> 0]

\* data downlinks on port 1: unconfirmed (0x60) and confirmed (0xA0), with
\* and without the FCtrl ACK bit, a damaged one, a 12-byte one, one for
\* another device
DownFrames ==
    {Frame(14, 96, 1, 0, 1, FALSE, TRUE), Frame(14, 96, 1, 32, 1, FALSE, TRUE),
     Frame(14, 160, 1, 0, 1, FALSE, TRUE), Frame(14, 160, 1, 32, 0, FALSE, TRUE),
     Frame(14, 96, 1, 0, 1, TRUE, TRUE), Frame(12, 96, 1, 32, 1, FALSE, TRUE),
     Frame(14, 96, 2, 32, 1, FALSE, TRUE)}

\* Join-Accepts: valid ones assigning DevAddr 1 and 0, one with a bad MIC,
\* a damaged one
JoinFrames ==
    {Frame(17, 32, 1, 0, 0, FALSE, TRUE), Frame(17, 32, 0, 0, 0, FALSE, TRUE),
     Frame(17, 32, 1, 0, 0, FALSE, FALSE), Frame(17, 32, 1, 0, 0, TRUE, TRUE)}

\* the values a read of channelFrequencies[idx] can need
JunkFor(idx) == IF idx \in Channels THEN {0} ELSE JunkFreqs

Called(op) ==
    [Cur EXCEPT !.lastCall = [NoCall EXCEPT !.op = op, !.wasJoined = joined]]

\* the call returns: its result is noted
Return(s) == \E t \in {s} : Apply(Unobserved([t EXCEPT !.lastCall.ret = t.ret]))

\* a call whose effect no property looks at through lastCall
Returned(s) == Apply(Unobserved([s EXCEPT !.lastCall = NoCall]))

\* ------------------------------------------------------- actions (API calls)
SetDevAddr == \E v \in KeyValues : Returned([Cur EXCEPT !.devAddr = v])
SetNwkSKey == \E v \in KeyValues : Returned([Cur EXCEPT !.nwkSKey = v])
SetAppSKey == \E v \in KeyValues : Returned([Cur EXCEPT !.appSKey = v])

SetDeviceClass == \E c \in DeviceClasses : Returned(setDeviceClass(Cur, c))

ResetSession == Returned(resetSession(Cur))

\* the least nonce that is not in the history
LeastFresh(s) ==
    CHOOSE n \in 1 .. Len(s.usedNonces) + 1 :
      ~Used(s, n) /\ \A m \in 1 .. n - 1 : Used(s, m)

Join ==
    \E mode \in JoinModes :
      /\ mode = "OTAA" => Len(usedNonces) < MaxJoinReqs
      /\ \E result \in IF mode = "OTAA" THEN BOOLEAN ELSE {TRUE} :
        \E junk \in IF mode = "OTAA" /\ result THEN JunkFreqs ELSE {0} :
          \E rx1 \in IF mode = "OTAA" /\ result THEN JoinFrames \cup {NoFrame}
                      ELSE {NoFrame} :
            \E rx2 \in IF mode = "OTAA" /\ result /\ ~Readable(rx1)
                        THEN JoinFrames \cup {NoFrame} ELSE {NoFrame} :
              \E called \in {Called("join")} :
                Return(join(called, mode, 0, LeastFresh(called), result, rx1, rx2,
                            junk))

\* send() as the application calls it
SendCall(data, confirmed, force, result, junk) ==
    Bind([Called("send") EXCEPT !.lastCall.confirmed = confirmed], LAMBDA called :
    Bind(send(called, data, AppPort, confirmed, force, result, junk), LAMBDA s :
      [s EXCEPT !.lastCall.stashed = (s.pendingAck = data /\ s.ackPort = AppPort)]))

Send ==
    /\ uplinkCounter < MaxFCnt
    /\ \E data \in Payloads, confirmed \in BOOLEAN, result \in BOOLEAN,
          junk \in JunkFor(current_channel) :
         Return(SendCall(data, confirmed, FALSE, result, junk))

\* an unconfirmed uplink that skips the duty-cycle gate
Uplink ==
    /\ uplinkCounter < MaxFCnt
    /\ \E result \in BOOLEAN, junk \in JunkFor(current_channel) :
         Return(SendCall(<<1>>, FALSE, TRUE, result, junk))

\* the results of the sends an update() can make: the retry, and the two
\* acknowledgements of a confirmed downlink in Class C
RetryResults == IF Retries(Cur) THEN BOOLEAN ELSE {TRUE}
AckResults(payload) ==
    IF currentClass = "CLASS_C" /\ payload.done /\ MType(payload.mhdr) = 160
    THEN BOOLEAN ELSE {TRUE}

\* update() finds the tracker in WAITING_ACK and reads from the radio a
\* CRC-clean data downlink for this device, of 12 bytes or more, whose FCtrl
\* ACK bit is set
AckSeen(s, payload) ==
    /\ s.joined /\ s.confirmState = "WAITING_ACK" /\ ~Retries(s)
    /\ payload.done /\ ~payload.crcError /\ payload.size >= 12
    /\ MType(payload.mhdr) \in {96, 160}
    /\ payload.devAddr = s.devAddr
    /\ Bit(payload.fctrl, 5) = 1

\* update() reads from the radio a confirmed data downlink that passes its
\* checks
\* update() takes the frame in and handles it
Handled(s, payload) ==
    /\ s.joined /\ ~Retries(s)
    /\ payload.done /\ ~payload.crcError /\ payload.size > 0
    /\ Accepts(s, payload)

\* update() finds the tracker in WaitingAck and handles a downlink whose FCtrl
\* ACK bit is clear
PlainSeen(s, payload) ==
    /\ s.confirmState = "WAITING_ACK" /\ Handled(s, payload)
    /\ Bit(payload.fctrl, 5) = 0

ConfirmedSeen(s, payload) ==
    /\ s.joined /\ ~Retries(s)
    /\ payload.done /\ ~payload.crcError /\ payload.size > 0
    /\ Accepts(s, payload) /\ MType(payload.mhdr) = 160

Update ==
    \E payload \in IF rfmMode = "RX_CONTINUOUS" THEN DownFrames \cup {NoFrame}
                   ELSE {NoFrame} :
      \E result1 \in RetryResults, result2 \in AckResults(payload),
         result3 \in AckResults(payload), junk \in JunkFor(current_channel) :
        \E called \in {[Called("update") EXCEPT
                          !.lastCall.ackRx = AckSeen(Cur, payload),
                          !.lastCall.plainRx = PlainSeen(Cur, payload),
                          !.lastCall.needsAckRx = ConfirmedSeen(Cur, payload)]} :
          \E s \in {update(called, payload, result1, result2, result3, junk)} :
            s.uplinkCounter <= MaxFCnt /\ Return(s)

\* the process ends and a new one constructs the object; the file stays
Restart == Apply(Constructed(sessionFile))

\* time passes between two calls, up to the next moment at which update()
\* behaves differently: the end of a receive delay, the end of a receive
\* window, the retry timeout
Deadlines(s) ==
    {RECEIVE_DELAY1 - s.elapsedSinceTx, RECEIVE_DELAY2 - s.elapsedSinceTx,
     WINDOW_DURATION - s.elapsedSinceWindow, ConfirmCap - s.elapsedSinceConfirm}
      \ {d \in Int : d <= 0}

NextDeadline(s) == CHOOSE d \in Deadlines(s) : \A e \in Deadlines(s) : d <= e

Tick ==
    \E s \in {Cur} :
      /\ Deadlines(s) # {}
      /\ Returned(Advance(s, NextDeadline(s)))

\* ---------------------------------------------------------- specifications
\* the session: provisioning, activation, reset and restart
Next ==
    \/ SetDevAddr \/ SetNwkSKey \/ SetAppSKey
    \/ SetDeviceClass \/ ResetSession \/ Join \/ Uplink \/ Restart

Spec == Init /\ [][Next]_vars

\* the duty cycle of an activated device: unconfirmed uplinks through the
\* duty-cycle gate that the radio all transmits, with the air interface
\* watched over the first hour
DutyObserved(s) ==
    [s EXCEPT !.lastCall = NoCall, !.rx1OpenedAt = -1, !.rx2OpenedAt = -1,
              !.sinceCall = 0]

SendDuty ==
    /\ uplinkCounter < MaxDutyFCnt
    /\ \E junk \in JunkFor(current_channel) :
         \E called \in {Called("send")} :
           Apply(DutyObserved(send(called, <<1>>, AppPort, FALSE, FALSE, TRUE, junk)))

\* the device stays idle for a quarter of an hour, or until the watched
\* hour is over
TickDuty ==
    /\ upTime <= HOUR_MS
    /\ \E d \in {DutyStep, AgeCap} : Apply(DutyObserved(Advance(Cur, d)))

\* the application has called setSingleChannel(enable, 868.1, sf) or not
InitDuty ==
    \E enable \in BOOLEAN, sf \in {INIT_SF, JOIN_RX2_SF} :
      Start(setSingleChannel(Activated, enable, BASE_FREQ, sf))

NextDuty == SendDuty \/ TickDuty

SpecDuty == InitDuty /\ [][NextDuty]_vars

\* the receive windows of an activated device whose main loop calls
\* update() at least every LOOP_PERIOD ms, with the opening times watched
RxObserved(s) ==
    [s EXCEPT !.lastCall = NoCall, !.lastTxFreq = 0, !.lastTxAir = 0,
              !.sameChGap = -1, !.sameChAir = 0, !.upTime = 0,
              !.hourAir = [f \in TxFreqs |-> 0], !.sinceCall = 0]

SendRx ==
    /\ uplinkCounter < MaxRxFCnt
    /\ \E junk \in JunkFor(current_channel) :
         \E called \in {Called("send")} :
           Apply(RxObserved(send(called, <<1>>, AppPort, FALSE, TRUE, TRUE, junk)))

UpdateRx ==
    \E junk \in JunkFor(current_channel) :
      \E called \in {Called("update")} :
        Apply(RxObserved(update(called, NoFrame, TRUE, TRUE, TRUE, junk)))

TickRx ==
    /\ rxState \in {"RX_WAIT_1", "RX_WINDOW_1", "RX_WAIT_2", "RX_WINDOW_2"}
    /\ sinceCall + RxStep <= LOOP_PERIOD
    /\ \E s \in {Advance(Cur, RxStep)} :
         Apply([s EXCEPT !.lastCall = NoCall, !.upTime = 0])

NextRx == SendRx \/ UpdateRx \/ TickRx

SpecRx == InitLink /\ [][NextRx]_vars

\* the main loop goes on: time passes and update() is called again
SpecRxLive == SpecRx /\ WF_vars(TickRx) /\ WF_vars(UpdateRx)

\* a confirmed uplink that is never acknowledged: the application sends it
\* once and keeps calling update(), the radio transmits every frame and
\* receives nothing; the time since the end of the last transmission is
\* watched
RetryObserved(s) ==
    [s EXCEPT !.rx1OpenedAt = -1, !.rx2OpenedAt = -1, !.sinceCall = 0,
              !.lastTxFreq = 0, !.lastTxAir = 0, !.sameChGap = -1,
              !.sameChAir = 0, !.upTime = 0, !.hourAir = [f \in TxFreqs |-> 0]]

SendRetry ==
    /\ uplinkCounter = 0 /\ confirmState = "NONE"
    /\ \E junk \in JunkFor(current_channel) :
         \E s \in {SendCall(<<1>>, TRUE, FALSE, TRUE, junk)} :
           Apply(RetryObserved([s EXCEPT !.lastCall.ret = s.ret]))

UpdateRetry ==
    \E junk \in JunkFor(current_channel) :
      \E called \in {Called("update")} :
        Apply(RetryObserved(update(called, NoFrame, TRUE, TRUE, TRUE, junk)))

TickRetry ==
    \E s \in {Cur} :
      /\ Deadlines(s) # {}
      /\ Apply(RetryObserved([Advance(s, NextDeadline(s)) EXCEPT !.lastCall = NoCall]))

NextRetry == SendRetry \/ UpdateRetry \/ TickRetry

\* update() with a radio that fails to transmit the retransmission
\* (rfm->send returns false)
UpdateRadio ==
    \E junk \in JunkFor(current_channel) :
      \E called \in {Called("update")} :
        Apply(RetryObserved(update(called, NoFrame, FALSE, TRUE, TRUE, junk)))

\* the radio transmits a retransmission or fails to: update() is called on
\* and on, and nothing makes the radio succeed in the end
NextRadio == SendRetry \/ UpdateRetry \/ UpdateRadio \/ TickRetry

SpecRadio ==
    /\ InitLink /\ [][NextRadio]_vars
    /\ WF_vars(SendRetry) /\ WF_vars(UpdateRadio) /\ WF_vars(TickRetry)

\* the main loop keeps running: the send is made, update() keeps being
\* called and time keeps passing
SpecRetry ==
    /\ InitLink /\ [][NextRetry]_vars
    /\ WF_vars(SendRetry) /\ WF_vars(UpdateRetry) /\ WF_vars(TickRetry)

\* the MAC commands of an activated Class A device: downlinks that carry
\* commands in FOpts, on FPort 0 or data on port 3, unconfirmed uplinks that
\* skip the duty-cycle gate, and requestLinkCheck(); the settings a LinkADRReq
\* is about and the frame update() took in are watched
MacSettings(s) ==
    <<s.rfmSF, s.rfmBW, s.rfmPower, s.current_sf, s.current_bw, s.txPower,
      s.channelFrequencies, s.current_nbRep>>

MacObserved(s) ==
    [s EXCEPT !.rx1OpenedAt = -1, !.rx2OpenedAt = -1, !.sinceCall = 0,
              !.lastTxFreq = 0, !.lastTxAir = 0, !.sameChGap = -1,
              !.sameChAir = 0, !.upTime = 0, !.hourAir = [f \in TxFreqs |-> 0]]

\* what the network server sends as FRMPayload for the plain bytes data
encryptFor(s, data, port, fcnt) ==
    decryptPayload([s EXCEPT !.downlinkCounter = fcnt], data, port)

\* an unconfirmed downlink for this device: FOpts, then the FPort and the
\* encrypted FRMPayload if there are any (rest), then the MIC
MacFrame(s, fopts, rest) ==
    [done |-> TRUE, crcError |-> FALSE, size |-> 8 + Len(fopts) + Len(rest) + 4,
     mhdr |-> 96, devAddr |-> s.devAddr, fctrl |-> Len(fopts), fcnt |-> 1,
     micOk |-> TRUE, body |-> fopts \o rest \o <<0, 0, 0, 0>>, margin |-> 5]

\* LinkADRReq in FOpts: DR5/power 2 (03 52 FF 00 01), DR6/power 0 on channel
\* 0 alone, power index 7, data rate 8, power index 8, ChMaskCntl 5
LinkADRFrames(s) ==
    {MacFrame(s, <<3, 82, 255, 0, 1>>, <<>>), MacFrame(s, <<3, 96, 1, 0, 1>>, <<>>),
     MacFrame(s, <<3, 87, 255, 0, 1>>, <<>>), MacFrame(s, <<3, 130, 255, 0, 1>>, <<>>),
     MacFrame(s, <<3, 88, 255, 0, 1>>, <<>>), MacFrame(s, <<3, 82, 255, 0, 81>>, <<>>),
     MacFrame(s, <<3, 82, 0, 0, 1>>, <<>>)}

\* other commands: 0x80 before a DevStatusReq, six DevStatusReq, a
\* DutyCycleReq before a LinkCheckAns, an RxParamSetupReq, one with the
\* frequency 100 Hz, one cut short after three bytes, a DevStatusReq on
\* FPort 0, five bytes of application data on port 3
OtherMacFrames(s) ==
    {MacFrame(s, <<128, 6>>, <<>>), MacFrame(s, <<6, 6, 6, 6, 6, 6>>, <<>>),
     MacFrame(s, <<4, 0, 2, 20, 1>>, <<>>), MacFrame(s, <<5, 18, 132, 214, 136>>, <<>>),
     MacFrame(s, <<5, 18, 0, 0, 1>>, <<>>), MacFrame(s, <<5, 18, 132, 214>>, <<>>),
     MacFrame(s, <<>>, <<0>> \o encryptFor(s, <<6>>, 0, 1)),
     MacFrame(s, <<>>, <<3>> \o encryptFor(s, <<82, 255, 0, 1, 0>>, 3, 1))}

\* a downlink for this device whose MIC is not the one NwkSKey gives: FOpts
\* 06 (DevStatusReq), port 1, one byte of payload, FCnt 2
BadMicFrames(s) ==
    {[MacFrame(s, <<6>>, <<AppPort, 0>>) EXCEPT !.micOk = FALSE, !.fcnt = 2]}

UpdateMac ==
    \E payload \in IF rfmMode = "RX_CONTINUOUS"
                   THEN LinkADRFrames(Cur) \cup OtherMacFrames(Cur)
                          \cup BadMicFrames(Cur) \cup {NoFrame}
                   ELSE {NoFrame} :
      \E junk \in IF payload.done /\ payload.fctrl = 4
                   THEN JunkFreqs ELSE JunkFor(current_channel) :
        \E called \in {[Called("update") EXCEPT
                          !.lastCall.rx = IF Handled(Cur, payload) THEN payload ELSE @,
                          !.lastCall.before = MacSettings(Cur)]} :
          Apply(MacObserved(update(called, payload, TRUE, TRUE, TRUE, junk)))

SendMac ==
    /\ uplinkCounter < MaxMacFCnt
    /\ \E result \in BOOLEAN, junk \in JunkFor(current_channel) :
         \E s \in {SendCall(<<1>>, FALSE, TRUE, result, junk)} :
           Apply(MacObserved([s EXCEPT !.lastCall.ret = s.ret]))

RequestLinkCheck ==
    \E called \in {Called("requestLinkCheck")} :
      Apply(MacObserved(requestLinkCheck(called)))

InitMac == Start(setDeviceClass(Activated, "CLASS_A"))

NextMac == UpdateMac \/ SendMac \/ RequestLinkCheck

SpecMac == InitMac /\ [][NextMac]_vars

\* ADR without an answer from the network: an activated device with ADR
\* enabled sends unconfirmed uplinks that skip the duty-cycle gate and never
\* receives a downlink
AdrObserved(s) == [MacObserved(s) EXCEPT !.lastCall = NoCall]

SendAdr ==
    /\ uplinkCounter < MaxAdrFCnt
    /\ \E result \in BOOLEAN, junk \in JunkFor(current_channel) :
         \E called \in {Called("send")} :
           Apply(AdrObserved(send(called, <<1>>, AppPort, FALSE, TRUE, result, junk)))

\* the application has called enableADR(true), and setSingleChannel(enable,
\* 868.1, sf) or not
InitAdr ==
    \E enable \in BOOLEAN, sf \in {INIT_SF, 12} :
      Start(enableADR(setSingleChannel(Activated, enable, BASE_FREQ, sf), TRUE))

NextAdr == SendAdr

SpecAdr == InitAdr /\ [][NextAdr]_vars

\* ---------------------------------------------- DevNonce generation, by turn
\* buildJoinRequest calls generateDevNonce: isUnique = false
EnterGenerateDevNonce ==
    /\ isUnique
    /\ Apply([Cur EXCEPT !.isUnique = FALSE])

\* rand() gives a value that is in the history: its oldest or newest entry
DrawUsed ==
    /\ ~isUnique
    /\ usedNonces # <<>>
    /\ \E nonce \in {usedNonces[1], usedNonces[Len(usedNonces)]} :
         Apply(DrawNonce(Cur, nonce))

\* rand() gives a value that is not: the least one of 1 .. 0xFFFF
DrawFresh ==
    /\ ~isUnique
    /\ \E nonce \in {n \in {LeastFresh(Cur)} : n <= MAX_NONCE /\ ~Used(Cur, n)} :
         Apply(DrawNonce(Cur, nonce))

NextNonce == EnterGenerateDevNonce \/ DrawUsed \/ DrawFresh

\* rand() does not keep to the at most 100 values of the history for ever
SpecNonce == Init /\ [][NextNonce]_vars /\ WF_vars(DrawFresh)

\* activation alone: the application provisions a DevAddr, joins, resets
\* the session, and the process restarts
NextJoin == SetDevAddr \/ Join \/ ResetSession \/ Restart

SpecJoin == Init /\ [][NextJoin]_vars

\* join(OTAA) of a device that is not joined, answered in RX1 by a
\* Join-Accept
Rejoin ==
    /\ ~joined
    /\ \E junk \in JunkFreqs, called \in {Called("join")} :
         Return(join(called, "OTAA", 0, LeastFresh(called), TRUE,
                     Frame(17, 32, 1, 0, 0, FALSE, TRUE), NoFrame, junk))

\* the first resetSession() of the process: no DevNonce has been written
FirstReset == lastDevNonce = Indeterminate /\ ResetSession

\* a session with a confirmed uplink that is not acknowledged, given up by
\* resetSession() and followed by a new join()
NextSession == SendRetry \/ UpdateRetry \/ TickRetry \/ FirstReset \/ Rejoin

SpecSession == InitLink /\ [][NextSession]_vars

\* the process stops inside SessionManager::saveSession, called for the
\* session in memory, and a new process constructs the object: before the
\* file is opened, between std::ofstream file(filename) and the write of the
\* text reaching the disk, or after file.close()
SaveStopped ==
    /\ joined
    /\ \E file \in {sessionFile, [NoFile EXCEPT !.exists = TRUE],
                     saveSessionData(Cur).sessionFile} :
         Apply([Constructed(file)
                  EXCEPT !.lastCall = [NoCall EXCEPT
                           !.op = "saveSession",
                           !.before = <<sessionFile,
                                        saveSessionData(Cur).sessionFile>>]])

\* activation, restarts, and stops during a save
NextFile == NextJoin \/ SaveStopped

SpecFile == Init /\ [][NextFile]_vars

\* the link of an activated device
NextLink == Send \/ Update \/ Tick

SpecLink == InitLink /\ [][NextLink]_vars

\* ------------------------------------------------------ uplinks and the file
\* the process stops inside send() when rfm->send has put the frame with
\* FCnt uplinkCounter on the air and saveSessionData has not been reached,
\* and a new process constructs the object
SendStopped ==
    /\ joined
    /\ uplinkCounter < MaxFCnt
    /\ Apply([Constructed(sessionFile)
                EXCEPT !.lastCall = [NoCall EXCEPT !.op = "sendStopped",
                                                   !.before = <<uplinkCounter>>]])

\* the link of an activated device, and stops during an uplink
NextSave == NextLink \/ SendStopped

SpecSave == InitLink /\ [][NextSave]_vars

\* ------------------------------------------------------- the frame counter
\* C1: every send() that returns true raises FCntUp by exactly 1 and every
\* send() that returns false leaves it alone, whether the application calls
\* send() or update() calls it for a retry or an acknowledgement; nothing
\* else on the link moves FCntUp
FCntUpCountsSends ==
    [][/\ lastCall'.op = "send" =>
            uplinkCounter' = uplinkCounter + (IF lastCall'.ret THEN 1 ELSE 0)
       /\ lastCall'.op = "update" => uplinkCounter' = uplinkCounter + lastCall'.tx
       /\ lastCall'.op \notin {"send", "update"} => uplinkCounter' = uplinkCounter]_vars

\* a send made by update() (a retry or an acknowledgement) went on the air
\* after an application send
UpdateSendCounted == lastCall.op = "update" /\ lastCall.tx = 1 /\ uplinkCounter = 2

\* ---------------------------------------------------------- receive windows
\* C7: in Class A, once update() accepted a downlink in RX1 of the last
\* uplink, the RX-window state is Idle (so RX2 is not opened)
Rx1DownlinkEndsCycle ==
    (currentClass = "CLASS_A" /\ rx1Accepted) => rxState = "RX_IDLE"

\* C8: no uplink goes on the air while the RX-window state is Wait1,
\* Window1, Wait2 or Window2
NoUplinkDuringRx ==
    lastCall.tx > 0 =>
        lastCall.rxStateAtTx \notin {"RX_WAIT_1", "RX_WINDOW_1", "RX_WAIT_2", "RX_WINDOW_2"}

\* C9: in Class C, when send() or update() returns outside Window1 and
\* Window2, the radio is in continuous receive on the RX2 frequency
ClassCListensOnRX2 ==
    (/\ currentClass = "CLASS_C" /\ joined
     /\ lastCall.op \in {"send", "update"}
     /\ rxState \notin {"RX_WINDOW_1", "RX_WINDOW_2"})
        => (rfmMode = "RX_CONTINUOUS" /\ rfmFreq = RX2_FREQ)

\* ------------------------------------------------------------ confirmation
\* C10: a confirmed application send() that returned true leaves the tracker
\* in WaitingAck with the payload and port stashed and one retry used
ConfirmedSendTracked ==
    (lastCall.op = "send" /\ lastCall.confirmed /\ lastCall.ret) =>
        (confirmState = "WAITING_ACK" /\ confirmRetries = 1 /\ lastCall.stashed)

\* C12: a confirmed uplink X that is never acknowledged, with update() kept
\* being called and every transmission succeeding, is on the air 8 times at
\* most (FCntUp never passes MAX_RETRIES), every retry is made by update() at
\* least 5 s after the previous attempt and carries X, and in the end the
\* tracker is None for good with FCntUp at exactly 8: nothing more is sent
UnackedUplinkSentEightTimes ==
    /\ [](uplinkCounter <= MAX_RETRIES)
    /\ [](confirmState = "WAITING_ACK" =>
            (pendingAck = <<1>> /\ ackPort = AppPort /\ confirmRetries = uplinkCounter))
    /\ []((lastCall.op = "update" /\ lastCall.tx > 0) =>
            (lastCall.tx = 1 /\ lastCall.gap >= RETRY_SECONDS * 1000))
    /\ <>[](uplinkCounter = MAX_RETRIES /\ confirmState = "NONE"
             /\ confirmRetries = 0)

\* the eighth transmission has been made and update() has given the uplink up
RetriesExhausted ==
    /\ lastCall.op = "update" /\ uplinkCounter = MAX_RETRIES
    /\ confirmState = "NONE" /\ pendingAck = <<>>

\* C13: in Class A the tracker is AckPending when update() returns from
\* accepting a confirmed downlink and becomes AckPending in no other way; a
\* successful uplink carries the ACK bit exactly when the tracker was
\* AckPending, and leaves the tracker in None if it was
ClassAAcksOnNextUplink ==
    /\ []((currentClass = "CLASS_A" /\ lastCall.op = "update" /\ lastCall.needsAckRx)
            => confirmState = "ACK_PENDING")
    /\ [][currentClass = "CLASS_A" =>
            /\ lastCall'.tx > 0 =>
                  /\ lastCall'.ack <=> (confirmState = "ACK_PENDING")
                  /\ confirmState = "ACK_PENDING" => confirmState' = "NONE"
            /\ (confirmState' = "ACK_PENDING" /\ confirmState # "ACK_PENDING") =>
                  (lastCall'.op = "update" /\ lastCall'.needsAckRx)]_vars

\* a Class A uplink has carried the ACK bit and the tracker is back in None
ClassAAckSent ==
    /\ currentClass = "CLASS_A" /\ lastCall.op = "send" /\ lastCall.ret
    /\ lastCall.ack /\ confirmState = "NONE"

\* C14: in Class C, an update() that accepts a confirmed downlink puts at
\* most one uplink on the air, and when it has put one the tracker is None
\* as update() returns
ClassCAcksOnce ==
    (currentClass = "CLASS_C" /\ lastCall.op = "update" /\ lastCall.needsAckRx) =>
        (lastCall.tx <= 1 /\ (lastCall.tx = 1 => confirmState = "NONE"))

\* C11: when update() finds the tracker in WaitingAck and receives a
\* CRC-clean downlink for this device of 12 bytes or more whose ACK bit is
\* set, the tracker is None and the retry count 0 when update() returns
AckEndsWaiting ==
    (lastCall.op = "update" /\ lastCall.ackRx) =>
        (confirmState = "NONE" /\ confirmRetries = 0)

\* ------------------------------------------------------------- the session
\* C2: a call to join() that finds the device joined puts no Join-Request
\* on the air
JoinedSendsNoJoinRequest ==
    ~(lastCall.op = "join" /\ lastCall.wasJoined /\ lastCall.joinReq)

\* C3: in every reachable state the device is joined exactly when DevAddr
\* and both session keys are non-zero
JoinedIffSessionSet ==
    joined <=> (devAddr # 0 /\ nwkSKey # 0 /\ appSKey # 0)

\* ------------------------------------------------------------ the duty cycle
\* C4: with force_duty_cycle = false, a transmission that follows another
\* one on the same frequency starts at least T_air / 0.01 - T_air after the
\* end of that one, T_air being its time on air
SameChannelGapKept ==
    sameChGap # -1 => ~TooEarly(sameChGap, sameChAir)

\* C5: with force_duty_cycle = false, the air time put on one frequency in
\* the first hour is at most 36 000 ms, and so is the air time the ledger
\* holds for a channel used in the last hour
HourlyAirTimeBounded ==
    /\ \A f \in TxFreqs : hourAir[f] <= HOUR_BUDGET
    /\ \A channel \in Channels : getDutyCycleUsage(Cur, channel) <= HOUR_BUDGET

\* C6: with update() called at least every 100 ms after a successful send(),
\* RX1 opens within 20 ms of tx_end + RECEIVE_DELAY1 and RX2 within 20 ms of
\* tx_end + RECEIVE_DELAY2
RxWindowsOnTime ==
    /\ rx1OpenedAt # -1 => Abs(rx1OpenedAt - RECEIVE_DELAY1) <= 20
    /\ rx2OpenedAt # -1 => Abs(rx2OpenedAt - RECEIVE_DELAY2) <= 20

\* ------------------------------------------------------------ MAC commands
\* update() has just handled a downlink whose FOpts are one LinkADRReq
LinkADRReqHandled ==
    /\ lastCall.op = "update" /\ lastCall.rx.done
    /\ lastCall.rx.fctrl = 5 /\ lastCall.rx.body[1] = MAC_LINK_ADR_REQ

\* the data rate, the TX-power index and the ChMaskCntl it asks for
ReqDataRate == lastCall.rx.body[2] \div 16
ReqTxPower == lastCall.rx.body[2] % 16
ReqChMaskCntl == (lastCall.rx.body[5] \div 16) % 8

\* the pending MAC responses begin with LinkADRAns 03 07
BeginsWithAns(bytes) == Len(bytes) >= 2 /\ SubSeq(bytes, 1, 2) = <<MAC_LINK_ADR_ANS, 7>>

\* C15: a downlink whose FOpts carry a LinkADRReq with a valid data rate
\* (DR0..DR6), a valid TX-power index (0..7) and a valid channel mask makes
\* the radio take the SF and bandwidth of the data rate (SF12..SF7 at
\* 125 kHz, DR6 SF7 at 250 kHz) and MaxEIRP - 2 * index dBm, and leaves
\* LinkADRAns 03 07 in the pending MAC responses; the next uplink carries
\* 03 07 at the head of its FOpts
ValidLinkADRApplied ==
    /\ []((LinkADRReqHandled /\ ReqDataRate <= 6 /\ ReqTxPower <= 7
             /\ ReqChMaskCntl <= 4)
           => /\ rfmSF = (IF ReqDataRate < 6 THEN 12 - ReqDataRate ELSE 7)
              /\ rfmBW = (IF ReqDataRate = 6 THEN 250 ELSE 125)
              /\ rfmPower = MAX_POWER - 2 * ReqTxPower
              /\ pendingMACResponses = <<MAC_LINK_ADR_ANS, 7>>)
    /\ [][(BeginsWithAns(pendingMACResponses) /\ lastCall'.op = "send")
             => \/ BeginsWithAns(pendingMACResponses')
                \/ lastCall'.tx > 0 /\ BeginsWithAns(lastCall'.fopts)]_vars

\* the LinkADRReq passes the data-rate, the TX-power and the channel-mask
\* validation of EU868
ReqDataRateValid == ReqDataRate <= 7
ReqTxPowerValid == ReqTxPower <= 7
ReqChMaskValid == ReqChMaskCntl <= 4

\* C16: a LinkADRReq that fails the data-rate, the TX-power or the
\* channel-mask validation leaves SF, bandwidth, TX power, the channel plan
\* and NbRep as they were, and is answered by a LinkADRAns whose status has
\* exactly the failing bits cleared (bit 0 ChMaskAck, bit 1 DataRateAck,
\* bit 2 PowerAck); one that passes all three is answered with status 0b111
\* and has its data rate, channel mask and NbRep committed
LinkADRAllOrNothing ==
    LinkADRReqHandled =>
      IF ReqDataRateValid /\ ReqTxPowerValid /\ ReqChMaskValid
      THEN /\ pendingMACResponses = <<MAC_LINK_ADR_ANS, 7>>
           /\ rfmSF = (IF ReqDataRate < 6 THEN 12 - ReqDataRate ELSE 7)
           /\ rfmBW = (IF ReqDataRate = 6 THEN 250 ELSE 125)
           /\ current_nbRep = Max(1, lastCall.rx.body[5] % 16)
           /\ ReqChMaskCntl = 0 =>
                \A i \in 0 .. 7 :
                  (channelFrequencies[i] # 0) = MaskBit(lastCall.rx.body[3], i)
      ELSE /\ MacSettings(Cur) = lastCall.before
           /\ pendingMACResponses =
                <<MAC_LINK_ADR_ANS,
                  (IF ReqTxPowerValid THEN 4 ELSE 0) + (IF ReqDataRateValid THEN 2 ELSE 0)
                    + (IF ReqChMaskValid THEN 1 ELSE 0)>>

\* C17: processMACCommands stops at the first CID it does not know: nothing
\* after that byte is taken as a command, adds an answer or changes a setting
UnknownCidEndsParsing == ~lastCall.afterUnknown

\* C18: handling a downlink only appends to the pending MAC responses: what
\* was queued before update() is still there afterwards, in front of the new
\* answers
AnswersAppended ==
    [][lastCall'.op = "update"
         => /\ Len(pendingMACResponses') >= Len(pendingMACResponses)
            /\ SubSeq(pendingMACResponses', 1, Len(pendingMACResponses))
                 = pendingMACResponses]_vars

\* C19: the pending MAC responses never hold more than 15 bytes
PendingAtMostFifteen == Len(pendingMACResponses) <= 15

\* -------------------------------------------------------------------- ADR
\* the SF the uplinks of the session start with
StartSf == IF one_channel_gateway THEN one_channel_sf ELSE INIT_SF

\* C20: with ADR enabled and no downlink, once ADR_ACK_LIMIT + ADR_ACK_DELAY
\* = 96 uplinks have gone out the SF is one step above the one the session
\* started with, or 12, and adrAckCounter is back at ADR_ACK_LIMIT
SfStepsUpAfter96 ==
    uplinkCounter = ADR_ACK_LIMIT + ADR_ACK_DELAY
      => /\ current_sf = Min(StartSf + 1, 12)
         /\ rfmSF = Min(StartSf + 1, 12)
         /\ adrAckCounter = ADR_ACK_LIMIT

\* -------------------------------------------------------------- integrity
\* C21: a downlink for this device whose MIC does not verify changes
\* nothing: FCntDown, the ADR counter, the confirmation tracker, the pending
\* MAC responses and the SF, bandwidth and power settings are after update()
\* what they were before
BadMicDownlinkDropped ==
    [][(lastCall'.op = "update" /\ lastCall'.rx.done /\ ~lastCall'.rx.micOk)
         => /\ downlinkCounter' = downlinkCounter
            /\ adrAckCounter' = adrAckCounter
            /\ confirmState' = confirmState
            /\ pendingMACResponses' = pendingMACResponses
            /\ <<current_sf, current_bw, txPower>>' = <<current_sf, current_bw, txPower>>]_vars

\* C22: a join() that processes a Join-Accept whose MIC fails leaves
\* DevAddr, NwkSKey, AppSKey, FCntUp, FCntDown and the joined flag as they
\* were
BadMicJoinAcceptIgnored ==
    [][(lastCall'.op = "join" /\ lastCall'.badMic)
         => <<devAddr, nwkSKey, appSKey, uplinkCounter, downlinkCounter, joined>>'
              = <<devAddr, nwkSKey, appSKey, uplinkCounter, downlinkCounter, joined>>]_vars

\* a join() has processed a Join-Accept with a failing MIC that assigns a
\* DevAddr other than the one the device holds
BadMicJoinAcceptSeen ==
    /\ lastCall.op = "join" /\ lastCall.badMic /\ ~lastCall.ret
    /\ devAddr = 0 /\ ~joined

\* C23: an OTAA join() that sent its Join-Request and reports failure has
\* opened RX2 and listened on it, whatever RX1 brought (nothing, a CRC error,
\* or a packet that is not a valid Join-Accept)
FailedJoinListenedOnRX2 ==
    (lastCall.op = "join" /\ lastCall.joinReq /\ ~lastCall.ret)
      => lastCall.joinRx2

\* C24: the DevNonce a Join-Request is built with was not in the history when
\* it was generated and is its newest entry afterwards, the history holds at
\* most 100 entries and loses its oldest one when a 101st is added, and
\* generateDevNonce comes to an end
FreshNonceBoundedHistory ==
    /\ [][(~isUnique /\ isUnique')
            => /\ \A i \in 1 .. Len(usedNonces) : usedNonces[i] # lastDevNonce'
               /\ usedNonces' = IF Len(usedNonces) = MAX_NONCES
                                THEN Append(Tail(usedNonces), lastDevNonce')
                                ELSE Append(usedNonces, lastDevNonce')]_vars
    /\ [](Len(usedNonces) <= MAX_NONCES)
    /\ (~isUnique ~> isUnique)

\* the 101st nonce has been generated: the history is full and its first
\* nonce is gone
HistoryEvicted ==
    /\ isUnique /\ Len(usedNonces) = MAX_NONCES
    /\ lastDevNonce = usedNonces[MAX_NONCES]
    /\ \A i \in 1 .. MAX_NONCES : usedNonces[i] # 1

\* ------------------------------------------------------------- persistence
\* what SessionManager::loadSession gets out of a session file
Loadable(file) == IF file.exists /\ file.complete THEN file ELSE NoFile

\* C25: when the process stopped inside saveSession, loadSession finds the
\* complete session that was in the file before or the complete new one
SaveIsAtomic ==
    lastCall.op = "saveSession"
      => \/ Loadable(sessionFile) = Loadable(lastCall.before[1])
         \/ Loadable(sessionFile) = lastCall.before[2]

\* a new process loads the session file as it is now
Reloaded == loadSessionData(Constructed(sessionFile))

\* C26: the session join() has just saved comes back from the file as it is
\* in memory: DevAddr, NwkSKey, AppSKey, FCntUp, FCntDown, joined, the last
\* DevNonce and the DevNonce history
SavedSessionRestored ==
    (lastCall.op = "join" /\ lastCall.joinReq /\ lastCall.ret)
      => /\ Reloaded.ret = joined
         /\ Reloaded.devAddr = devAddr
         /\ Reloaded.nwkSKey = nwkSKey
         /\ Reloaded.appSKey = appSKey
         /\ Reloaded.uplinkCounter = uplinkCounter
         /\ Reloaded.downlinkCounter = downlinkCounter
         /\ Reloaded.lastDevNonce = lastDevNonce
         /\ Reloaded.usedNonces = usedNonces

\* C27: when send() has returned true the session file holds the FCntUp that
\* is in memory, and a process that stopped in send() after the frame went
\* out reloads an FCntUp above the one that frame carried
SavedFCntUpAheadOfAir ==
    /\ (lastCall.op = "send" /\ lastCall.ret)
         => Loadable(sessionFile).uplinkCounter = uplinkCounter
    /\ (lastCall.op = "sendStopped" /\ Reloaded.ret)
         => Reloaded.uplinkCounter > lastCall.before[1]

\* ------------------------------------------------------------ uplink frames
\* C28: an uplink frame has its FPort byte exactly when it has an FRMPayload,
\* and is 1 + 4 + 1 + 2 + FOptsLen + [1] + len(FRMPayload) + 4 bytes long
FPortOnlyWithPayload ==
    lastCall.packet # <<>>
      => Len(lastCall.packet)
           = 1 + 4 + 1 + 2 + (lastCall.packet[6] % 16)
               + (IF lastCall.frm = <<>> THEN 0 ELSE 1 + Len(lastCall.frm)) + 4

\* C29: the MHDR of an uplink is 0x40 (unconfirmed) or 0x80 (confirmed),
\* also when an ACK is owed, and the ACK travels in FCtrl bit 5 alone
UplinkMHDRIsDataUp ==
    lastCall.packet # <<>>
      => /\ lastCall.packet[1] = IF lastCall.confirmedTx THEN 128 ELSE 64
         /\ (lastCall.packet[6] \div 32) % 2 = IF lastCall.ackbit THEN 1 ELSE 0

\* C30: in multi-channel mode the frequency send() programs for an uplink is
\* that of an active channel (never 0), and no active channel has a lower
\* duty-cycle usage than the one chosen
LeastUsedActiveChannel ==
    (lastCall.packet # <<>> /\ lastCall.txFreq # -1)
      => /\ lastCall.txFreq > 0
         /\ \A usage \in lastCall.activeUsages : lastCall.txUsage <= usage

LinkADRStatusBits ==
    LinkADRReqHandled =>
      /\ Len(pendingMACResponses) = 2
      /\ pendingMACResponses[1] = MAC_LINK_ADR_ANS
      /\ LET status == pendingMACResponses[2]
         IN  /\ (status % 2 = 0) <=> ~ReqChMaskValid
             /\ ((status \div 2) % 2 = 0) <=> ~ReqDataRateValid
             /\ ((status \div 4) % 2 = 0) <=> ~ReqTxPowerValid

\* ------------------------------------------------- channel kept for RX1
\* C33: after join() or send() has transmitted and returned, current_channel
\* is an index 0..15 of the channel plan and the frequency of that channel
\* is the one the uplink went out on, in multi-channel and in single-channel
\* mode
CurrentChannelIsTxChannel ==
    (lastCall.op \in {"join", "send"} /\ (lastCall.joinReq \/ lastCall.packet # <<>>))
      => /\ current_channel \in 0 .. MAX_CHANNELS - 1
         /\ channelFrequencies[current_channel] =
              (IF lastCall.op = "send" /\ one_channel_gateway THEN one_channel_freq
               ELSE lastCall.txFreq)

\* ----------------------------------------------------- ACK bit of FCtrl
\* C34: a downlink whose FCtrl ACK bit (bit 5) is clear never takes the
\* tracker from WaitingAck to None
PlainDownlinkKeepsWaiting ==
    (lastCall.op = "update" /\ lastCall.plainRx) => confirmState # "NONE"

\* ------------------------------------------------- MAC answers and failures
\* C35: MAC answers leave the pending MAC responses only with an uplink that
\* is transmitted: a send() that returns false leaves the buffer as it was,
\* so that a later uplink carries the answers
FailedSendKeepsAnswers ==
    [][(lastCall'.op = "send" /\ ~lastCall'.ret)
         => pendingMACResponses' = pendingMACResponses]_vars

\* ------------------------------------------------ retries on a failing radio
\* C36: a tracker in WaitingAck returns to None under repeated update()
\* calls, also when the retransmissions fail at the radio: the stashed
\* payload is handed to the radio MAX_RETRIES times at most, attempts 5 s
\* apart
WaitingEndsOnFailingRadio ==
    /\ (confirmState = "WAITING_ACK") ~> (confirmState = "NONE")
    /\ [][(lastCall'.op = "update" /\ lastCall'.packet # <<>>)
            => (elapsedSinceConfirm \div 1000) >= RETRY_SECONDS]_vars

\* --------------------------------------------------------- downlink replay
\* C37: FCntDown never decreases while the session is active: a downlink
\* whose FCnt is not above the FCntDown last accepted does not change FCntDown
FCntDownNeverDecreases ==
    [][(joined /\ joined') => downlinkCounter' >= downlinkCounter]_vars

\* -------------------------------------------------------- RxParamSetupReq
\* C38: an RxParamSetupReq answered with a status other than 0b111 leaves
\* the stored RX1 data-rate offset and RX2 data rate as they were
RejectedRxParamsNotStored ==
    [][(/\ lastCall'.op = "update" /\ lastCall'.rx.done
        /\ lastCall'.rx.fctrl = 5 /\ lastCall'.rx.body[1] = MAC_RX_PARAM_SETUP_REQ
        /\ pendingMACResponses' # <<MAC_RX_PARAM_SETUP_ANS, 7>>)
         => (rx1DrOffset' = rx1DrOffset /\ rx2DataRate' = rx2DataRate)]_vars

\* ----------------------------------------------------- command buffer
\* C39: for every byte sequence given to processMACCommands, commands cut
\* short included, the parsing ends and reads no index at or beyond the
\* length of the buffer
MacParsingInBounds ==
    lastCall.op = "update" => ~lastCall.pastEnd

\* ------------------------------------------------------- a new session
\* C40: after resetSession() and a new successful join(), nothing of the
\* session before is transmitted: the update() that follows the join puts
\* no uplink on the air (no stashed payload is retried), and the send() that
\* follows it carries no ACK and no MAC answer from before
NewSessionSendsNothingOld ==
    [][(lastCall.op = "join" /\ lastCall.ret /\ joined)
         => /\ lastCall'.op = "update" => lastCall'.tx = 0
            /\ lastCall'.op = "send" => (~lastCall'.ackbit /\ lastCall'.fopts = <<>>)]_vars

====
